---- MODULE Spec2Model ----
(***************************************************************************)
(* Asteroids-HASB: the simulation core (identity allocator, change log,    *)
(* asteroid split, fixed-step loop) as a state machine.                    *)
(*                                                                         *)
(* Units.  f32/f64 quantities are carried as scaled integers:              *)
(*   lengths and sizes  : pixels                                           *)
(*   speeds             : pixels per second                                *)
(*   angles             : eighths of a turn (pi/4); pi = 4, 2*pi = 8       *)
(*   asteroid spin      : eighths of a turn per second                     *)
(*   ship, missile turn : milliradians per second                          *)
(*   time               : 1/4800 s, so that one tick (1/60 s) is 80        *)
(*   simulation_speed   : fortieths (1.0 = 40)                             *)
(*   shield             : thirds of a point (100.0 = 300)                  *)
(*   random factors     : per cent (1.0 = 100)                             *)
(*   cos / sin          : per mille, by table                              *)
(* Products are divided back with truncation toward zero (TDiv), which     *)
(* stands for the rounding of the float operations.                        *)
(* The texture of an asteroid is cosmetic (no branch reads it) and is not  *)
(* carried.                                                                *)
(***************************************************************************)
EXTENDS Integers, Sequences, FiniteSets, TLC

\* ------------------------------------------------------------- constants
SCALE == 30

\* ---------------------------------------------------------------- bounds
\* largest to_add (u8 in the code) handed to split by the split harness
MaxToAdd == 2
\* the identity counter is a u64; runs stop before it passes MaxUid
MaxUid == 6
\* longest change log built by the apply harness
MaxLog == 3
\* number of threads calling generate_uid, and calls per thread
NumThreads == 2
MaxCalls == 2
\* number of frames of main a run goes through
MaxFrames == 2
MaxFlightFrames == 4

\* ------------------------------------------------- random draws (inputs)
\* speed_factor = rng.gen_range(1.0..=1.5)
SpeedFactorChoices == {125}
\* factor = rng.gen_range(0.5..=1.5)
TurnFactorChoices == {100}
\* sign = if rng.gen_bool(0.5) { 1.0 } else { -1.0 }, drawn once per child; the
\* spin is cosmetic, and the draw enumerated gives both signs to the children
SignChoices(n) == {[i \in 0..(n - 1) |-> IF i % 2 = 0 THEN 1 ELSE -1]}

VARIABLES
    NEXT_UID,          \* ast-lib NEXT_UID: the next id fetch_add hands out
    asteroids,         \* Vec<Asteroid>
    asteroid_changes,  \* Vec<Change<Asteroid>>
    last,              \* history: the last operation, its arguments and pre-state
    uid_threads,       \* per thread: where it is in generate_uid and what it got
    uid_issued,        \* history: the values generate_uid has returned
    uid_held,          \* ids held by live entities of the uid harness
    uid_retired,       \* ids whose entity was removed
    gamestate,         \* Gamestate: every field but asteroids and asteroid_changes
    pc,                \* where main's loop is within the frame
    end_cooldown_age,  \* main: get_time() - end_cooldown, counted up to half a second
    frame,             \* history: the frame so far and the last discrete step
    keys               \* KeyBindings: the shared input state, its mutexes, both threads

vars == <<NEXT_UID, asteroids, asteroid_changes, last,
          uid_threads, uid_issued, uid_held, uid_retired,
          gamestate, pc, end_cooldown_age, frame, keys>>

\* ------------------------------------------------------------ arithmetic
Abs(x) == IF x < 0 THEN -x ELSE x

\* division of the product of scaled integers, truncating toward zero
TDiv(a, b) == IF a >= 0 THEN a \div b ELSE -((-a) \div b)

\* F at the value of v, v being computed once
With(v, F(_)) == CHOOSE r \in {F(x) : x \in {v}} : TRUE

\* the sum of a sequence of numbers
RECURSIVE SumSeq(_)
SumSeq(seq) == IF seq = <<>> THEN 0 ELSE Head(seq) + SumSeq(Tail(seq))

Cos1000 == <<1000, 707, 0, -707, -1000, -707, 0, 707>>
Sin1000 == <<0, 707, 1000, 707, 0, -707, -1000, -707>>
Cos(angle) == Cos1000[(angle % 8) + 1]
Sin(angle) == Sin1000[(angle % 8) + 1]

\* ------------------------------------------------------------- identity
\* AtomicU64::fetch_add(1): one atomic read-modify-write; ret is the old value
FetchAddNoIncrement(cur) == [ret |-> cur, new |-> cur]
generate_uid(cur) == [ret |-> cur, new |-> cur + 1]

\* ----------------------------------------------------------- change log
Add(item) == [kind |-> "Add", item |-> item]
Remove(uid) == [kind |-> "Remove", id |-> uid]

\* cloned.id = generate_uid()
CloneKeepId(item, uid) == item
clone_with_new_uid(item, uid) == [item EXCEPT !.id = generate_uid(uid).ret]

\* vec.retain(|x| x.get_id() != uid)
RetainInverted(vec, uid) == SelectSeq(vec, LAMBDA x : x.id = uid)
Retain(vec, uid) == SelectSeq(vec, LAMBDA x : x.id # uid)

\* the body of for change in changes.iter(): one change applied to vec
ApplyOne(vec, change, uid) ==
    IF change.kind = "Add"
    THEN [vec |-> Append(vec, clone_with_new_uid(change.item, uid)),
          uid |-> generate_uid(uid).new]
    ELSE [vec |-> Retain(vec, change.id), uid |-> uid]

\* the changes lo..hi applied in order: the first half, then the second
RECURSIVE ApplyFrom(_, _, _, _, _)
ApplyFrom(vec, changes, lo, hi, uid) ==
    IF lo > hi THEN [vec |-> vec, uid |-> uid]
    ELSE IF lo = hi THEN ApplyOne(vec, changes[lo], uid)
    ELSE With(ApplyFrom(vec, changes, lo, (lo + hi) \div 2, uid), LAMBDA r :
              ApplyFrom(r.vec, changes, ((lo + hi) \div 2) + 1, hi, r.uid))

\* apply_changes(vec, changes): the loop, then changes.clear()
apply_changes(vec, changes, uid) ==
    With(ApplyFrom(vec, changes, 1, Len(changes), uid), LAMBDA r :
         [vec |-> r.vec, uid |-> r.uid, changes |-> <<>>])

\* -------------------------------------------------------------- asteroid
\* the draws one split call makes for num_to_create children
RngDraws(n) ==
    [speed_factor : SpeedFactorChoices,
     factor : [0..(n - 1) -> TurnFactorChoices],
     sign : SignChoices(n)]

\* the i-th child built in the loop of split (i from 0); Asteroid::new takes uid
SplitChild(self, i, num_to_create, new_size, uid, rng) ==
    LET base_rotation == -self.rotation
        start_angle == base_rotation - 2
        \* angle_step * (i + 0.5), angle_step = PI / num_to_create
        rotation == start_angle + TDiv(4 * (2 * i + 1), 2 * num_to_create)
        base_magnitude == Abs(self.turn_rate)
        turn_rate == TDiv(base_magnitude * rng.factor[i], 100) * rng.sign[i]
        dx == TDiv(Cos(rotation) * 33 * self.size, 100000)
        dy == TDiv(Sin(rotation) * 33 * self.size, 100000)
    IN [id |-> generate_uid(uid).ret,
        position |-> <<self.position[1] + dx, self.position[2] + dy>>,
        speed |-> TDiv(self.speed * rng.speed_factor, 100),
        size |-> new_size,
        rotation |-> rotation,
        direction |-> (IF i % 2 = 0 THEN -1 ELSE 1) * self.direction,
        speed_multiplier |-> self.speed_multiplier,
        turn_rate |-> turn_rate]

RECURSIVE SplitLoop(_, _, _, _, _, _, _)
SplitLoop(self, i, num_to_create, new_size, change_list, uid, rng) ==
    IF i >= num_to_create THEN [change_list |-> change_list, uid |-> uid]
    ELSE SplitLoop(self, i + 1, num_to_create, new_size,
                   Append(change_list,
                          Add(SplitChild(self, i, num_to_create, new_size, uid, rng))),
                   generate_uid(uid).new, rng)

\* number of children split builds for an asteroid that is not a leaf
NumToCreateIgnoreCanAdd(can_add, to_add) == to_add
NumToCreate(can_add, to_add) == IF can_add THEN to_add ELSE 1

\* the size of the children
NewSizeKeep(self) == self.size
NewSizeHalved(self) == self.size \div 2
NewSize(self) == self.size - SCALE

\* the terminal case of split: if new_size <= 0.0
IsLeafStrict(new_size) == new_size < 0
IsLeaf(new_size) == new_size <= 0

\* Asteroid::split(&self, can_add, to_add, change_list)
split(self, can_add, to_add, change_list, uid, rng) ==
    LET new_size == NewSize(self) IN
    IF IsLeaf(new_size)
    THEN [change_list |-> Append(change_list, Remove(self.id)), uid |-> uid]
    ELSE LET r == SplitLoop(self, 0, NumToCreate(can_add, to_add), new_size,
                            change_list, uid, rng)
         IN [change_list |-> Append(r.change_list, Remove(self.id)), uid |-> r.uid]

\* ======================================================================
\* The game: units, geometry and the entities
\* ======================================================================
\* general.rs: pub const TICKS: f64 = 1.0 / 60.0, in time units
TICKS == 80
UnitsPerSec == 60 * TICKS
\* n/d seconds in time units
Seconds(n, d) == (n * UnitsPerSec) \div d
\* simulation_speed 1.0, and n/d of it
SpeedOne == TICKS \div 2
SimSpeed(n, d) == (n * SpeedOne) \div d
\* the window of window_conf (screen_width(), screen_height())
ScreenWidth == 2560
ScreenHeight == 1440
\* std::f32::consts::PI / 4 in milliradians
MilliRadPerEighth == 785
\* an angle in milliradians to the nearest eighth of a turn
ToEighths(mrad) ==
    IF mrad >= 0 THEN (2 * mrad + MilliRadPerEighth) \div (2 * MilliRadPerEighth)
    ELSE -((2 * (-mrad) + MilliRadPerEighth) \div (2 * MilliRadPerEighth))

\* Rust's % on floats: the remainder has the sign of the dividend
Rem(a, b) == a - b * TDiv(a, b)
Max(a, b) == IF a >= b THEN a ELSE b
Min(a, b) == IF a <= b THEN a ELSE b

\* the displacement of speed (px/s) along one axis (per mille) during dt
Displacement(axis1000, speed, dt) == TDiv(axis1000 * speed * dt, 1000 * UnitsPerSec)

\* y.atan2(x) to the nearest eighth of a turn, in -4..4
Atan2(y, x) ==
    LET ax == Abs(x)
        ay == Abs(y)
        q == IF 1000 * ay < 414 * ax THEN 0
             ELSE IF 414 * ay > 1000 * ax THEN 2 ELSE 1
    IN IF x = 0 /\ y = 0 THEN 0
       ELSE IF x >= 0 THEN (IF y >= 0 THEN q ELSE -q)
       ELSE (IF y >= 0 THEN 4 - q ELSE q - 4)

DistanceSquared(p, q) ==
    (p[1] - q[1]) * (p[1] - q[1]) + (p[2] - q[2]) * (p[2] - q[2])

\* CosmicEntity::collides_with: distance < self.size + other.size
CollidesAtEquality(a, b) ==
    DistanceSquared(a.position, b.position) <= (a.size + b.size) * (a.size + b.size)
CollidesWithinOwnSize(a, b) ==
    DistanceSquared(a.position, b.position) < a.size * a.size
collides_with(a, b) ==
    /\ a.size + b.size > 0
    /\ DistanceSquared(a.position, b.position) < (a.size + b.size) * (a.size + b.size)

\* CosmicEntity::is_out_of_bounds, on the position
is_out_of_bounds(e) ==
    \/ e.position[1] < 0 \/ e.position[1] > ScreenWidth
    \/ e.position[2] < 0 \/ e.position[2] > ScreenHeight

\* CosmicEntity::add_rotation: rotation = (rotation - amount) % (2 * PI)
add_rotation(e, amount) == [e EXCEPT !.rotation = Rem(e.rotation - amount, 8)]

RECURSIVE NearestFromLast(_, _, _, _, _)
NearestFromLast(pos, objects, k, min_distance, nearest) ==
    IF k > Len(objects) THEN nearest
    ELSE LET d == DistanceSquared(objects[k].position, pos) IN
         IF min_distance < 0 \/ d <= min_distance
         THEN NearestFromLast(pos, objects, k + 1, d, <<objects[k].position>>)
         ELSE NearestFromLast(pos, objects, k + 1, min_distance, nearest)
RECURSIVE NearestFrom(_, _, _, _, _)
NearestFrom(pos, objects, k, min_distance, nearest) ==
    IF k > Len(objects) THEN nearest
    ELSE LET d == DistanceSquared(objects[k].position, pos) IN
         IF min_distance < 0 \/ d < min_distance
         THEN NearestFrom(pos, objects, k + 1, d, <<objects[k].position>>)
         ELSE NearestFrom(pos, objects, k + 1, min_distance, nearest)

\* CosmicEntity::find_nearest: <<>> is None, <<p>> is Some(p); a negative
\* min_distance stands for INFINITY
find_nearest(self, objects) == NearestFrom(self.position, objects, 1, -1, <<>>)

\* ------------------------------------------------------------ asteroid
bound_to(coord, max) == IF coord < 0 THEN max ELSE IF coord > max THEN 0 ELSE coord
bound_pos(pos) == <<bound_to(pos[1], ScreenWidth), bound_to(pos[2], ScreenHeight)>>

\* Asteroid::update
asteroid_update(self, delta_time) ==
    LET v == TDiv(self.speed * self.speed_multiplier, 100)
        x == self.position[1] + Displacement(Cos(self.direction), v, delta_time)
        y == self.position[2] + Displacement(Sin(self.direction), v, delta_time)
    IN [self EXCEPT !.rotation = @ + TDiv(self.turn_rate * delta_time, UnitsPerSec),
                    !.position = bound_pos(<<x, y>>)]

\* Asteroid::compute_score(100, multipliers, Some(size)); the index is beyond
\* the table exactly when the code panics
\* ((size / SCALE) - 1.0) as usize: the cast truncates toward zero and turns a
\* negative value into 0
ScoreIndexUnclamped(size) == TDiv(size, SCALE) - 1
ScoreIndex(size) == Max(TDiv(size - SCALE, SCALE), 0)
ComputeScoreFlat(base, multipliers, size) == base
compute_score(base, multipliers, size) == base * multipliers[ScoreIndex(size) + 1]

\* ----------------------------------------------------------- spaceship
\* Spaceship::new (shield_timer is written nowhere and is not carried)
Spaceship_new(uid) ==
    [id |-> generate_uid(uid).ret,
     position |-> <<ScreenWidth \div 2, ScreenHeight \div 2>>,
     speed |-> 0, max_speed |-> 500, rotation |-> 0, turn_rate |-> 4000,
     missile_capacity |-> 2, special_radius |-> 55, size |-> 25,
     shield |-> 3 * 100, invulnerability |-> Seconds(3, 1), alive |-> TRUE,
     hom_cooldown |-> 0, fire_cooldown |-> 0]

\* Spaceship::modify_shield, amount in thirds of a point
ModifyShieldNoFloor(self, amount) == [self EXCEPT !.shield = @ + amount]
modify_shield(self, amount) ==
    LET shield == self.shield + amount IN
    [self EXCEPT !.shield = IF shield < 0 THEN 0 ELSE shield]

\* 5.0 / 3.0 * (size / SCALE + 1.0).powf(2.0), in thirds of a point
DamageOfChildSize(size) == 5 * (TDiv(size - SCALE, SCALE) + 1) * (TDiv(size - SCALE, SCALE) + 1)
CollisionDamage(size) == 5 * (TDiv(size, SCALE) + 1) * (TDiv(size, SCALE) + 1)

CoolDown(t, delta_time) == IF t > 0 THEN Max(t - delta_time, 0) ELSE t

\* Spaceship::update
spaceship_update(self, delta_time) ==
    LET speed == IF self.speed > self.max_speed THEN self.max_speed ELSE self.speed
        x == self.position[1] + Displacement(Cos(self.rotation), speed, delta_time)
        y == self.position[2] + Displacement(-Sin(self.rotation), speed, delta_time)
        wx == IF x < 0 THEN ScreenWidth ELSE IF x > ScreenWidth THEN 0 ELSE x
        wy == IF y < 0 THEN ScreenHeight ELSE IF y > ScreenHeight THEN 0 ELSE y
    IN [self EXCEPT !.speed = speed, !.position = <<wx, wy>>,
                    !.hom_cooldown = CoolDown(@, delta_time),
                    !.fire_cooldown = CoolDown(@, delta_time),
                    !.invulnerability = CoolDown(@, delta_time)]

Signum(x) == IF x < 0 THEN -1 ELSE 1

\* Spaceship::move_spaceship (base_acceleration = 150.0)
MoveSpaceshipUnclamped(self, delta_time, movement_type) ==
    [self EXCEPT !.speed = @ + TDiv(150 * (IF movement_type THEN 1 ELSE -1)
                                       * (IF Signum(self.speed) = (IF movement_type THEN -1 ELSE 1)
                                          THEN 3 ELSE 1) * delta_time, UnitsPerSec)]
move_spaceship(self, delta_time, movement_type) ==
    LET movement_direction == IF movement_type THEN 1 ELSE -1
        acceleration_factor == IF Signum(self.speed) = -movement_direction THEN 3 ELSE 1
        acceleration == TDiv(150 * movement_direction * acceleration_factor * delta_time,
                             UnitsPerSec)
    IN IF Abs(self.speed + acceleration) < self.max_speed
       THEN [self EXCEPT !.speed = @ + acceleration]
       ELSE [self EXCEPT !.speed = self.max_speed * movement_direction]

\* -delta in i8 where the negation wraps (i8::MIN stays i8::MIN), and as u8
WrappingNeg(delta) == IF delta = -128 THEN -128 ELSE -delta
AsU8(x) == x % 256

\* Spaceship::modify_capacity (u8, i8): saturating_add then min(u8::MAX - 1),
\* or saturating_sub
ModifyCapacityWrapping(self, delta) ==
    [self EXCEPT !.missile_capacity = AsU8(@ + delta)]
modify_capacity(self, delta) ==
    IF delta >= 0
    THEN [self EXCEPT !.missile_capacity = Min(Min(@ + AsU8(delta), 255), 255 - 1)]
    ELSE [self EXCEPT !.missile_capacity = Max(@ - AsU8(WrappingNeg(delta)), 0)]

\* a point at radius from center, at angle (eighths), y downward
OnCircle(center, radius, angle) ==
    <<center[1] + TDiv(radius * Cos(angle), 1000),
      center[2] - TDiv(radius * Sin(angle), 1000)>>

\* Spaceship::generate_positions_angles with the arcs summon_missile passes
\* (left: PI/2 + 0.2 to 3*PI/2; right: PI/2 to 3*PI/2 - 0.2), angles in mrad
VolleySizeUnrounded(capacity) == capacity
VolleySize(capacity) == IF capacity % 2 # 0 THEN capacity + 1 ELSE capacity
generate_positions_angles(self) ==
    LET n == VolleySize(self.missile_capacity)
        center == self.position
        radius == self.special_radius
        rotation == self.rotation
        Entry(angle) == [position |-> OnCircle(center, radius, angle), angle |-> angle]
        left_start == 1771
        left_end == 4712
        right_start == 1571
        right_end == 4512
        half == n \div 2
        left_step == TDiv(left_end - left_start, half - 1)
        right_step == TDiv(right_end - right_start, half - 1)
    IN IF n = 0 THEN <<>>
       ELSE IF n = 2 THEN <<Entry(2 + rotation), Entry(6 + rotation)>>
       ELSE IF n = 4 THEN <<Entry(ToEighths(2094) + rotation), Entry(ToEighths(4189) + rotation),
                            Entry(ToEighths(1047) + rotation), Entry(ToEighths(5236) + rotation)>>
       ELSE [i \in 1..n |->
                IF i <= half
                THEN Entry(ToEighths(left_start + (i - 1) * left_step) + rotation)
                ELSE Entry(ToEighths(right_start - (i - half - 1) * right_step) + rotation)]

\* ------------------------------------------------------------- missile
\* Missile::new
Missile_new(position, speed, rotation, homing, target, uid) ==
    [id |-> generate_uid(uid).ret, position |-> position, speed |-> Abs(speed),
     rotation |-> rotation, lifetime |-> Seconds(20, 1), size |-> 4,
     turn_rate |-> 7500, acceleration |-> 200, homing |-> homing, target |-> target]

\* Missile::target_object
target_object(self, target_pos, delta_time) ==
    LET dx == target_pos[1] - self.position[1]
        dy == target_pos[2] - self.position[2]
        target_angle == -Atan2(dy, dx)
        raw_diff == target_angle - self.rotation
        angle_diff == IF raw_diff > 4 THEN raw_diff - 8
                      ELSE IF raw_diff < -4 THEN raw_diff + 8 ELSE raw_diff
        max_turn == TDiv(self.turn_rate * delta_time, UnitsPerSec * MilliRadPerEighth)
    IN IF Abs(angle_diff) > max_turn
       THEN (IF angle_diff > 0 THEN [self EXCEPT !.rotation = @ + max_turn]
             ELSE [self EXCEPT !.rotation = @ - max_turn])
       ELSE [self EXCEPT !.rotation = target_angle]

\* a missile that keeps its place
MissileStays(self, potential_targets, delta_time) == self

\* Missile::update
missile_update(self, potential_targets, delta_time) ==
    LET nearest_target == find_nearest(self, potential_targets)
        sped == [self EXCEPT !.speed = @ + TDiv(self.acceleration * delta_time, UnitsPerSec)]
        decayed == IF sped.turn_rate > 1000
                   THEN [sped EXCEPT !.turn_rate = @ - TDiv(3500 * delta_time, UnitsPerSec)]
                   ELSE sped
        target == IF nearest_target = <<>> THEN <<0, 0>> ELSE nearest_target[1]
        steered == IF decayed.lifetime > 0
                   THEN target_object([decayed EXCEPT !.lifetime = @ - delta_time,
                                                      !.target = target],
                                      target, delta_time)
                   ELSE [decayed EXCEPT !.turn_rate = 0]
        m == IF self.homing THEN steered ELSE self
        rotation == Rem(m.rotation, 8)
        x == m.position[1] + Displacement(Cos(rotation), m.speed, delta_time)
        y == m.position[2] + Displacement(-Sin(rotation), m.speed, delta_time)
        moved == [m EXCEPT !.rotation = rotation, !.position = <<x, y>>]
    IN IF is_out_of_bounds(moved) THEN [moved EXCEPT !.size = 0] ELSE moved

\* ------------------------------------------------------- floating text
\* LifetimedText::new (rotation, font size and colour are cosmetic)
LifetimedText_new(lifetime, position, text, speed, uid) ==
    [id |-> generate_uid(uid).ret, lifetime |-> lifetime, position |-> position,
     text |-> text, speed |-> speed]

\* LifetimedText::update
text_update(self, deltatime) ==
    [self EXCEPT !.position = <<@[1], @[2] + TDiv(self.speed * deltatime, UnitsPerSec)>>,
                 !.lifetime = @ - deltatime]

\* the lifetime of the popup for a score: 100 => 1.0, 200 => 2.0, 300 => 2.5
TextLifetime(score) ==
    IF score = 100 THEN Seconds(1, 1) ELSE IF score = 200 THEN Seconds(2, 1)
    ELSE IF score = 300 THEN Seconds(5, 2) ELSE Seconds(1, 1)

\* ======================================================================
\* Gamestate (general.rs) and the frame of main (main.rs)
\* ======================================================================
MapSeq(seq, F(_)) == [k \in 1..Len(seq) |-> F(seq[k])]

\* Gamestate::new; fps, loop_number and input are only displayed and are not
\* carried; asteroids and asteroid_changes are the variables of those names
Gamestate_new(uid) ==
    [delta_time |-> 0, accumulator |-> 0, simulation_speed |-> 0, debug |-> FALSE,
     asteroids_children |-> 2, missiles |-> <<>>, spaceship |-> Spaceship_new(uid),
     asteroid_limit |-> 26, number_of_asteroids |-> 0, score |-> <<0, 0>>,
     multipliers |-> <<3, 2, 1>>, missile_changes |-> <<>>, text_changes |-> <<>>,
     menu |-> <<"Start">>, win |-> FALSE, over |-> FALSE, exit |-> FALSE,
     texts |-> <<>>]

\* Asteroid::new_default for the k-th asteroid of reset; one draw of the rng:
\* a position 30 px inside one of the four edges, size 2 or 3 times SCALE,
\* speed = 1.0 * speed_multiplier * 120
new_default(k, uid) ==
    LET nearside == (k % 4) + 1
        nearpos == 30
        along == k * 100
        xpos == IF nearside = 2 THEN ScreenWidth - nearpos
                ELSE IF nearside = 4 THEN nearpos ELSE along
        ypos == IF nearside = 1 THEN nearpos
                ELSE IF nearside = 3 THEN ScreenHeight - nearpos ELSE along \div 2
    IN [id |-> generate_uid(uid).ret, position |-> <<xpos, ypos>>, speed |-> 120,
        size |-> (2 + (k % 2)) * SCALE, rotation |-> 2, direction |-> k % 8,
        speed_multiplier |-> 100, turn_rate |-> IF k % 2 = 0 THEN 1 ELSE -1]

\* the asteroids reset pushes: for _ in 1..=20
ResetCount == 20
ResetAsteroidsOneUid(uid) == [k \in 1..ResetCount |-> new_default(k, uid)]
ResetAsteroids(uid) == [k \in 1..ResetCount |-> new_default(k, uid + k - 1)]

\* Gamestate::get_max_score(100, multipliers, children_count, _)[3]: every
\* asteroid counted with all its descendants down to the smallest size
RECURSIVE accumulate_size(_, _, _)
accumulate_size(size, children_count, multipliers) ==
    IF size < SCALE THEN 0
    ELSE LET index == TDiv(size, SCALE) - 1
             own == IF index < 3 THEN 100 * multipliers[index + 1] ELSE 0
         IN own + children_count * accumulate_size(size - SCALE, children_count, multipliers)

get_max_score(asts, multipliers, children_count) ==
    SumSeq(MapSeq(asts, LAMBDA a : accumulate_size(a.size, children_count, multipliers)))

Pop(seq) == IF seq = <<>> THEN seq ELSE SubSeq(seq, 1, Len(seq) - 1)
get_last_menu_item(g) == IF g.menu = <<>> THEN "" ELSE g.menu[Len(g.menu)]

\* Gamestate::reset; the change logs and the accumulator are not touched
reset(g, uid) ==
    With(ResetAsteroids(generate_uid(uid).new), LAMBDA asts :
         [g |-> [g EXCEPT !.win = FALSE, !.over = FALSE, !.missiles = <<>>,
                          !.spaceship = Spaceship_new(uid), !.texts = <<>>,
                          !.menu = Pop(@), !.number_of_asteroids = Len(asts),
                          !.score = <<0, get_max_score(asts, g.multipliers,
                                                       g.asteroids_children)>>],
          asteroids |-> asts,
          uid |-> generate_uid(uid).new + ResetCount])

\* Gamestate::update_simulation_speed
update_simulation_speed(g) ==
    LET s1 == IF g.menu = <<>> THEN SpeedOne
              ELSE IF ~g.debug THEN 0 ELSE g.simulation_speed
        s2 == IF g.menu # <<>> /\ ~(get_last_menu_item(g) = "Start" /\ g.debug)
              THEN 0 ELSE s1
        s3 == IF ~g.spaceship.alive /\ s2 = SpeedOne /\ ~g.debug
              THEN SimSpeed(1, 20) ELSE s2
    IN [g EXCEPT !.simulation_speed = s3]

\* Gamestate::update_ending
UpdateEndingForgetsOver(g) ==
    LET dead == ~g.spaceship.alive /\ g.simulation_speed > 0 /\ ~g.debug
        g1 == IF dead THEN [g EXCEPT !.simulation_speed = SimSpeed(1, 10)] ELSE g
        g2 == IF dead /\ g.number_of_asteroids <= 0
              THEN [g1 EXCEPT !.menu = IF @ = <<>> THEN <<"Start">> ELSE @]
              ELSE g1
    IN IF g2.spaceship.alive /\ g2.simulation_speed > 0 /\ g2.number_of_asteroids <= 0
       THEN [g2 EXCEPT !.win = TRUE,
                       !.menu = IF @ = <<>> /\ ~g2.debug THEN <<"Start">> ELSE @]
       ELSE g2
update_ending(g) ==
    LET dead == ~g.spaceship.alive /\ g.simulation_speed > 0 /\ ~g.debug
        g1 == IF dead THEN [g EXCEPT !.simulation_speed = SimSpeed(1, 10)] ELSE g
        g2 == IF dead /\ g.number_of_asteroids <= 0
              THEN [g1 EXCEPT !.over = TRUE,
                              !.menu = IF @ = <<>> THEN <<"Start">> ELSE @]
              ELSE g1
    IN IF g2.spaceship.alive /\ g2.simulation_speed > 0 /\ g2.number_of_asteroids <= 0
       THEN [g2 EXCEPT !.win = TRUE,
                       !.menu = IF @ = <<>> /\ ~g2.debug THEN <<"Start">> ELSE @]
       ELSE g2

\* Gamestate::update_all
update_all(g, asts, changes, uid) ==
    With(g.delta_time, LAMBDA dt :
    With(apply_changes(MapSeq(asts, LAMBDA a : asteroid_update(a, dt)), changes, uid),
         LAMBDA ra :
    With(apply_changes(MapSeq(g.missiles, LAMBDA m : missile_update(m, asts, dt)),
                       g.missile_changes, ra.uid), LAMBDA rm :
    With(apply_changes(MapSeq(g.texts, LAMBDA t : text_update(t, dt)),
                       g.text_changes, rm.uid), LAMBDA rt :
    With(update_simulation_speed(
             [g EXCEPT !.spaceship = spaceship_update(g.spaceship, dt)]), LAMBDA g1 :
         [g |-> update_ending(
                    [g1 EXCEPT !.missiles = rm.vec, !.missile_changes = rm.changes,
                               !.texts = rt.vec, !.text_changes = rt.changes,
                               !.number_of_asteroids = Len(ra.vec)]),
          asteroids |-> ra.vec, asteroid_changes |-> ra.changes, uid |-> rt.uid])))))

RECURSIVE SummonVolley(_, _, _, _, _)
SummonVolley(missiles, positions, idx, capacity, uid) ==
    IF idx >= capacity THEN [missiles |-> missiles, uid |-> uid]
    ELSE IF idx + 1 = capacity
    THEN [missiles |-> Append(missiles,
                              Missile_new(positions[idx + 1].position, 200,
                                          positions[idx + 1].angle, TRUE,
                                          <<-100, -100>>, uid)),
          uid |-> generate_uid(uid).new]
    ELSE With(SummonVolley(missiles, positions, idx, (idx + capacity) \div 2, uid),
              LAMBDA r : SummonVolley(r.missiles, positions, (idx + capacity) \div 2,
                                      capacity, r.uid))

SummonMissileSingle(g, is_homing, uid) ==
    [g |-> [g EXCEPT !.missiles =
               Append(@, Missile_new(g.spaceship.position,
                                     IF is_homing THEN 200 ELSE g.spaceship.max_speed,
                                     g.spaceship.rotation, is_homing, <<-100, -100>>, uid))],
     uid |-> generate_uid(uid).new]
\* Gamestate::summon_missile: the missiles are pushed on the collection itself
summon_missile(g, is_homing, uid) ==
    IF is_homing
    THEN LET r == SummonVolley(g.missiles, generate_positions_angles(g.spaceship), 0,
                               g.spaceship.missile_capacity, uid)
         IN [g |-> [g EXCEPT !.missiles = r.missiles], uid |-> r.uid]
    ELSE [g |-> [g EXCEPT !.missiles =
                     Append(@, Missile_new(g.spaceship.position, g.spaceship.max_speed,
                                           g.spaceship.rotation, FALSE,
                                           <<-100, -100>>, uid))],
          uid |-> generate_uid(uid).new]

\* the asteroids lo..hi split in order: the first half, then the second
RECURSIVE SplitAllFrom(_, _, _, _, _, _, _)
SplitAllFrom(asts, lo, hi, to_add, changes, uid, rng) ==
    IF lo > hi THEN [change_list |-> changes, uid |-> uid]
    ELSE IF lo = hi
    THEN With(split(asts[lo], TRUE, to_add, changes, uid, rng), LAMBDA r :
              [change_list |-> r.change_list, uid |-> r.uid])
    ELSE With(SplitAllFrom(asts, lo, (lo + hi) \div 2, to_add, changes, uid, rng),
              LAMBDA r :
              SplitAllFrom(asts, ((lo + hi) \div 2) + 1, hi, to_add,
                           r.change_list, r.uid, rng))

\* Gamestate::split_all_asteroids
split_all_asteroids(g, asts, changes, uid, rng) ==
    SplitAllFrom(asts, 1, Len(asts), g.asteroids_children, changes, uid, rng)

\* Spaceship::position_in_front_with_rotation(distance, 0.0)
position_in_front_with_rotation(self, distance) ==
    <<self.position[1] + TDiv(Cos(self.rotation) * distance, 1000),
      self.position[2] - TDiv(Sin(self.rotation) * distance, 1000)>>

\* Gamestate::create_debug_asteroid: a stationary asteroid of size 3 * SCALE,
\* 500 px in front of the ship; rotation, direction and spin are rng draws
create_debug_asteroid(g, changes, uid) ==
    [change_list |->
        Append(changes,
               Add([id |-> generate_uid(uid).ret,
                    position |-> position_in_front_with_rotation(g.spaceship, 500),
                    speed |-> 0, size |-> 3 * SCALE, rotation |-> 2, direction |-> 1,
                    speed_multiplier |-> 100, turn_rate |-> 1])),
     uid |-> generate_uid(uid).new]

\* ------------------------------------------------- the discrete step
\* (number_of_asteroids + asteroids_children) < asteroid_limit
CanAdd(g) == (g.number_of_asteroids + g.asteroids_children) < g.asteroid_limit

\* the missiles the cull pass queues: is_out_of_bounds on the position
CullSpent(missiles, changes) ==
    changes \o MapSeq(SelectSeq(missiles, LAMBDA m : is_out_of_bounds(m) \/ m.lifetime <= 0),
                      LAMBDA m : Remove(m.id))
CullExpired(missiles, changes) ==
    changes \o MapSeq(SelectSeq(missiles, LAMBDA m : m.lifetime <= 0),
                      LAMBDA m : Remove(m.id))
CullMissiles(missiles, changes) ==
    changes \o MapSeq(SelectSeq(missiles, is_out_of_bounds), LAMBDA m : Remove(m.id))

\* .any(|c| matches!(c, Change::Remove(a) if *a == asteroid.get_id()))
NeverQueuedRemove(changes, uid) == FALSE
IsQueuedRemove(changes, uid) ==
    \E k \in 1..Len(changes) : changes[k].kind = "Remove" /\ changes[k].id = uid

\* main.rs 156-170: the ship after the hit by an asteroid of that size
ShipAfterHitNoGrace(ship, size, kick) ==
    With(modify_shield(ship, -CollisionDamage(size)), LAMBDA hit :
    With(add_rotation([hit EXCEPT !.speed = TDiv(@ * 25, 100)], kick), LAMBDA kicked :
         IF kicked.shield <= 0 THEN [kicked EXCEPT !.alive = FALSE] ELSE kicked))
ShipAfterHit(ship, size, kick) ==
    With(modify_shield(ship, -CollisionDamage(size)), LAMBDA hit :
    With(add_rotation([hit EXCEPT !.invulnerability = Seconds(2, 5),
                                  !.speed = TDiv(@ * 25, 100)], kick), LAMBDA kicked :
         IF kicked.shield <= 0 THEN [kicked EXCEPT !.alive = FALSE] ELSE kicked))

\* main.rs 142-143: get_life() && get_invulnerability() <= 0.0
VulnerableWreck(ship) == ship.invulnerability <= 0
Vulnerable(ship) == ship.alive /\ ship.invulnerability <= 0

\* main.rs 140-171: the collision of the ship with one asteroid.  s carries the
\* ship, the three logs, the earned score, the identity counter and the events
ShipCollision(asteroid, g, s, rng, kick) ==
    IF Vulnerable(s.ship) /\ collides_with(asteroid, s.ship)
    THEN With(split(asteroid, CanAdd(g), g.asteroids_children,
                    Append(s.ac, Remove(asteroid.id)), s.uid, rng), LAMBDA r :
         With(ShipAfterHit(s.ship, asteroid.size, kick), LAMBDA ship :
              [s EXCEPT !.ship = ship, !.ac = r.change_list, !.uid = r.uid,
                        !.events = @ \o <<[kind |-> "ship", asteroid |-> asteroid.id,
                                           size |-> asteroid.size,
                                           shield_before |-> s.ship.shield,
                                           shield_after |-> ship.shield,
                                           alive_after |-> ship.alive],
                                          [kind |-> "split", asteroid |-> asteroid.id,
                                           by |-> "ship"]>>]))
    ELSE s

\* main.rs 185-225: the asteroid hit by a missile is split, its score granted
\* and shown
MissileSplit(asteroid, missile, g, s, rng) ==
    With(split(asteroid, CanAdd(g), g.asteroids_children, s.ac, s.uid, rng), LAMBDA r :
    With(compute_score(100, g.multipliers, asteroid.size), LAMBDA score :
         [s EXCEPT !.ac = r.change_list, !.uid = generate_uid(r.uid).new,
                   !.score = @ + score,
                   !.tc = Append(@, Add(LifetimedText_new(
                                TextLifetime(score),
                                <<missile.position[1] + rng.text_offset[1],
                                  missile.position[2] + rng.text_offset[2]>>,
                                score, -30, r.uid))),
                   !.events = @ \o <<[kind |-> "split", asteroid |-> asteroid.id,
                                      by |-> "missile"],
                                     [kind |-> "score", asteroid |-> asteroid.id,
                                      award |-> score]>>]))

\* main.rs 176-226: one missile that collides with the asteroid
MissileHit(asteroid, missile, g, s, rng) ==
    With(IsQueuedRemove(s.ac, asteroid.id), LAMBDA already_removed :
    With([s EXCEPT !.mc = Append(@, Remove(missile.id)),
                   !.events = Append(@, [kind |-> "missile", asteroid |-> asteroid.id,
                                         missile |-> missile.id,
                                         already_removed |-> already_removed])],
         LAMBDA s1 : IF already_removed THEN s1
                     ELSE MissileSplit(asteroid, missile, g, s1, rng)))

\* main.rs 174-227: for missile in &gamestate.missiles
\* the missiles lo..hi in order: the first half, then the second
RECURSIVE MissileCollisionsIn(_, _, _, _, _, _, _)
MissileCollisionsIn(asteroid, missiles, lo, hi, g, s, rng) ==
    IF lo > hi THEN s
    ELSE IF lo = hi
    THEN (IF ~collides_with(asteroid, missiles[lo]) THEN s
          ELSE MissileHit(asteroid, missiles[lo], g, s, rng))
    ELSE With(MissileCollisionsIn(asteroid, missiles, lo, (lo + hi) \div 2, g, s, rng),
              LAMBDA s1 : MissileCollisionsIn(asteroid, missiles, ((lo + hi) \div 2) + 1,
                                              hi, g, s1, rng))
MissileCollisions(asteroid, missiles, j, g, s, rng) ==
    MissileCollisionsIn(asteroid, missiles, j, Len(missiles), g, s, rng)

\* main.rs 134-227: one asteroid of the loop
AsteroidPass(asteroid, missiles, g, s, rng, kick) ==
    With(IF asteroid.size = 0 THEN [s EXCEPT !.ac = Append(@, Remove(asteroid.id))]
         ELSE s, LAMBDA s0 :
    With(ShipCollision(asteroid, g, s0, rng, kick), LAMBDA s1 :
         MissileCollisions(asteroid, missiles, 1, g, s1, rng)))

\* main.rs 133-228: for asteroid in &mut gamestate.asteroids
\* the asteroids lo..hi in order: the first half, then the second
RECURSIVE AsteroidLoop(_, _, _, _, _, _, _, _)
AsteroidLoop(asts, lo, hi, missiles, g, s, rng, kick) ==
    IF lo > hi THEN s
    ELSE IF lo = hi THEN AsteroidPass(asts[lo], missiles, g, s, rng, kick)
    ELSE With(AsteroidLoop(asts, lo, (lo + hi) \div 2, missiles, g, s, rng, kick),
              LAMBDA s1 :
              AsteroidLoop(asts, ((lo + hi) \div 2) + 1, hi, missiles, g, s1, rng, kick))

\* main.rs 230-236: expired texts are queued for removal
CullTexts(texts, changes) ==
    changes \o MapSeq(SelectSeq(texts, LAMBDA t : t.lifetime <= 0),
                      LAMBDA t : Remove(t.id))

\* main.rs 244-253: each asteroid is split when its draw of 0..=100 is <= 50
AttritionOne(asteroid, g, s, rng, drawn) ==
    IF ~drawn THEN s
    ELSE With(split(asteroid, CanAdd(g), g.asteroids_children, s.ac, s.uid, rng),
              LAMBDA r :
              [s EXCEPT !.ac = r.change_list, !.uid = r.uid,
                        !.events = Append(@, [kind |-> "split",
                                              asteroid |-> asteroid.id,
                                              by |-> "attrition"])])

\* the asteroids lo..hi in order: the first half, then the second
RECURSIVE Attrition(_, _, _, _, _, _, _)
Attrition(asts, lo, hi, g, s, rng, coin) ==
    IF lo > hi THEN s
    ELSE IF lo = hi THEN AttritionOne(asts[lo], g, s, rng, coin[lo])
    ELSE With(Attrition(asts, lo, (lo + hi) \div 2, g, s, rng, coin), LAMBDA s1 :
              Attrition(asts, ((lo + hi) \div 2) + 1, hi, g, s1, rng, coin))

\* a cooldown that never runs out
CooldownNever(age) == FALSE
\* get_time() - end_cooldown >= 0.5
CooldownOver(age) == age >= Seconds(1, 2)

\* main.rs 239-255: the asteroids wear down once the ship is destroyed
AttritionPass(asts, g, s, age, rng, coin) ==
    IF ~s.ship.alive /\ CooldownOver(age) /\ g.simulation_speed > 0
    THEN [s |-> Attrition(asts, 1, Len(asts), g, s, rng, coin), age |-> 0]
    ELSE [s |-> s, age |-> age]

\* accumulator -= TICKS
AccumulatorCleared(accumulator) == 0
AccumulatorAfterStep(accumulator) == accumulator - TICKS

\* main.rs 119-257: the body of while gamestate.accumulator >= TICKS
discrete_step(g, asts, changes, uid, age, rng, kick, coin) ==
    With(apply_changes(g.missiles, CullMissiles(g.missiles, g.missile_changes), uid),
         LAMBDA rm :
    With([ship |-> g.spaceship, ac |-> changes, mc |-> rm.changes,
          tc |-> g.text_changes, score |-> g.score[1], uid |-> rm.uid,
          events |-> <<>>], LAMBDA s0 :
    With(AsteroidLoop(asts, 1, Len(asts), rm.vec, g, s0, rng, kick), LAMBDA s1 :
    With([s1 EXCEPT !.tc = CullTexts(g.texts, @)], LAMBDA s2 :
    With(AttritionPass(asts, g, s2, age, rng, coin), LAMBDA r :
         [g |-> [g EXCEPT !.missiles = rm.vec, !.missile_changes = r.s.mc,
                          !.text_changes = r.s.tc, !.spaceship = r.s.ship,
                          !.score = <<r.s.score, g.score[2]>>,
                          !.accumulator = AccumulatorAfterStep(@)],
          asteroid_changes |-> r.s.ac, uid |-> r.s.uid, age |-> r.age,
          events |-> r.s.events,
          culled |-> {m.id : m \in {g.missiles[k] : k \in 1..Len(g.missiles)}}
                         \ {m.id : m \in {rm.vec[k] : k \in 1..Len(rm.vec)}}])))))

\* ======================================================================
\* Harness states shared by the specifications below
\* ======================================================================
uidVars == <<uid_threads, uid_issued, uid_held, uid_retired>>
gameVars == <<gamestate, pc, end_cooldown_age, frame>>

\* history of the frame: its number, the accumulator it started with, the real
\* time it took over, the discrete steps run so far, the ids whose removal
\* has been queued by a discrete step, the actions held at the last
\* handle_input, and the asteroid of each call of split the discrete steps
\* have made, in order
FrameIdle == [number |-> 0, a0 |-> 0, elapsed |-> 0, steps |-> 0, removed |-> {},
              held |-> {}, splits |-> <<>>]

\* the game before main's loop, for the harnesses that do not run it
GameIdle ==
    /\ gamestate = Gamestate_new(1)
    /\ pc = "idle"
    /\ end_cooldown_age = 0
    /\ frame = FrameIdle

\* key_bindings.rs 52-68: the Arc<Mutex<..>> fields of KeyBindings, and those
\* of the KeyBindings of ast-core (input_state, scroll_accumulator)
Mutexes ==
    {"pressed_keys", "just_pressed", "just_released", "scroll_state",
     "scroll_accumulator_up", "scroll_accumulator_down",
     "input_state", "scroll_accumulator"}

\* KeyBindings::new (key_bindings.rs 72-83) before start_listening: the lists
\* are empty (kept as sets: the reads only ask what they contain), every
\* mutex is free, the listener waits for an event, the simulation thread is
\* at the head of a frame; seen and lost are history
KeysIdle ==
    [pressed_keys |-> {}, just_pressed |-> {}, just_released |-> {},
     scroll_state |-> "Idle", owner |-> [m \in Mutexes |-> "free"],
     crate |-> "asteroids", event |-> <<>>, listener |-> 0, sim |-> 1,
     seen |-> {}, lost |-> {}]

UidIdle ==
    [t \in 1..NumThreads |-> [pc |-> "idle", ret |-> 0, prev |-> 0, calls |-> 0]]

\* an asteroid as Asteroid::new builds it (position and motion drawn by the rng)
SeedAsteroid(uid, size, rotation) ==
    [id |-> generate_uid(uid).ret, position |-> <<100, 100>>, speed |-> 120,
     size |-> size, rotation |-> rotation, direction |-> 1,
     speed_multiplier |-> 100, turn_rate |-> 1]


\* ======================================================================
\* SpecSplit: one asteroid of size n*SCALE, every asteroid produced is split
\* (Gamestate::split_all_asteroids with any can_add / to_add) and the log is
\* flushed by apply_changes (Gamestate::update_all)
\* ======================================================================
InitSplit ==
    /\ NEXT_UID = generate_uid(1).new
    /\ \E n \in 1..3 : asteroids = <<SeedAsteroid(1, n * SCALE, 1)>>
    /\ asteroid_changes = <<>>
    /\ last = [op |-> "init"]
    /\ uid_threads = UidIdle
    /\ keys = KeysIdle
    /\ uid_issued = {}
    /\ uid_held = {}
    /\ uid_retired = {}
    /\ GameIdle

\* asteroids are split in the order of the collection, as the loops of the code do
NextToSplit(i) ==
    /\ ~IsQueuedRemove(asteroid_changes, asteroids[i].id)
    /\ \A j \in 1..(i - 1) : IsQueuedRemove(asteroid_changes, asteroids[j].id)

SplitStep ==
    \E i \in 1..Len(asteroids), can_add \in BOOLEAN, to_add \in 0..MaxToAdd :
      \E rng \in RngDraws(NumToCreate(can_add, to_add)) :
        /\ NextToSplit(i)
        /\ LET r == split(asteroids[i], can_add, to_add, asteroid_changes,
                          NEXT_UID, rng)
           IN /\ asteroid_changes' = r.change_list
              /\ NEXT_UID' = r.uid
        /\ last' = [op |-> "split", self |-> asteroids[i], can_add |-> can_add,
                    to_add |-> to_add, log_before |-> asteroid_changes,
                    uid_before |-> NEXT_UID]
        /\ UNCHANGED <<asteroids, uidVars, keys, gameVars>>

FlushStep ==
    /\ asteroid_changes # <<>>
    /\ LET r == apply_changes(asteroids, asteroid_changes, NEXT_UID)
       IN /\ asteroids' = r.vec
          /\ asteroid_changes' = r.changes
          /\ NEXT_UID' = r.uid
    /\ last' = [op |-> "apply", vec_before |-> asteroids,
                changes_before |-> asteroid_changes, uid_before |-> NEXT_UID]
    /\ UNCHANGED <<uidVars, keys, gameVars>>

NextSplit == SplitStep \/ FlushStep

SpecSplit == InitSplit /\ [][NextSplit]_vars

\* the hypothesis of termination: splitting and flushing keep being done
SpecSplitFair == SpecSplit /\ WF_vars(SplitStep) /\ WF_vars(FlushStep)

\* ----------------------------------------------------------------------
\* C1: for an asteroid with size > SCALE, split(can_add = true, to_add = k)
\* appends exactly k Add changes followed by one Remove(parent id), and
\* split(can_add = false, to_add = k) appends exactly one Add and one
\* Remove(parent id) whatever k is; the changes already in the log stay as
\* they were.
C1_SplitAppends ==
    (last.op = "split" /\ last.self.size > SCALE) =>
        LET n == IF last.can_add THEN last.to_add ELSE 1
            before == Len(last.log_before)
        IN /\ Len(asteroid_changes) = before + n + 1
           /\ SubSeq(asteroid_changes, 1, before) = last.log_before
           /\ \A k \in 1..n : asteroid_changes[before + k].kind = "Add"
           /\ asteroid_changes[before + n + 1] = Remove(last.self.id)

C1_Witness ==
    /\ last.op = "split"
    /\ last.self.size > SCALE
    /\ ~last.can_add
    /\ last.to_add = 2
    /\ last.log_before # <<>>
    /\ Len(asteroid_changes) = Len(last.log_before) + 2

\* ----------------------------------------------------------------------
\* C2: for an asteroid of size SCALE, split appends exactly one change,
\* Remove(own id), and no Add, for every can_add and to_add.
C2_LeafOnlyRemoves ==
    (last.op = "split" /\ last.self.size = SCALE) =>
        asteroid_changes = Append(last.log_before, Remove(last.self.id))

C2_Witness ==
    /\ last.op = "split"
    /\ last.self.size = SCALE
    /\ last.can_add
    /\ last.to_add = 2
    /\ asteroid_changes = Append(last.log_before, Remove(last.self.id))

\* ----------------------------------------------------------------------
\* C3: from one asteroid of size n*SCALE (n in 1..3), splitting every
\* asteroid that is produced terminates with no asteroid left: every child
\* is exactly one SCALE smaller than its parent, every split and every flush
\* lowers a measure that is never negative (so no run goes on for ever and
\* no lineage outlives its n tiers), and when nothing is left to do the
\* collection and the log are empty.
ChildrenOneScaleSmaller ==
    last.op = "split" =>
        \A k \in (Len(last.log_before) + 1)..Len(asteroid_changes) :
            asteroid_changes[k].kind = "Add" =>
                /\ asteroid_changes[k].item.size = last.self.size - SCALE
                /\ asteroid_changes[k].item.size >= SCALE

NoAsteroidLeft == asteroids = <<>> /\ asteroid_changes = <<>>

\* most children one split makes in this specification
MostChildren == IF MaxToAdd > 1 THEN MaxToAdd ELSE 1

\* what an asteroid of a size still owes: itself and all it can turn into
RECURSIVE SizeWeight(_)
SizeWeight(size) ==
    IF size <= SCALE THEN 2 ELSE MostChildren * (SizeWeight(size - SCALE) + 1) + 2

AsteroidWeight(a) ==
    IF IsQueuedRemove(asteroid_changes, a.id) THEN 1 ELSE SizeWeight(a.size)

AsteroidWeightNext(a) ==
    IF IsQueuedRemove(asteroid_changes', a.id) THEN 1 ELSE SizeWeight(a.size)

ChangeWeight(c) == IF c.kind = "Add" THEN SizeWeight(c.item.size) + 1 ELSE 0

SplitMeasure ==
    SumSeq([k \in 1..Len(asteroids) |-> AsteroidWeight(asteroids[k])])
        + SumSeq([k \in 1..Len(asteroid_changes) |-> ChangeWeight(asteroid_changes[k])])

SplitMeasureNext ==
    SumSeq([k \in 1..Len(asteroids') |-> AsteroidWeightNext(asteroids'[k])])
        + SumSeq([k \in 1..Len(asteroid_changes') |->
                     ChangeWeight(asteroid_changes'[k])])

C3_SplittingTerminates ==
    /\ []ChildrenOneScaleSmaller
    /\ [](SplitMeasure >= 0)
    /\ [][SplitMeasureNext < SplitMeasure]_vars
    /\ []((~ENABLED NextSplit) => NoAsteroidLeft)

\* three generations were split: the last flush removed four asteroids of size SCALE
C3_Witness ==
    /\ NoAsteroidLeft
    /\ last.op = "apply"
    /\ Len(last.vec_before) = 4
    /\ \A i \in 1..4 : last.vec_before[i].size = SCALE

\* ======================================================================
\* SpecApply: any change log the callers can build (Add of a newly
\* constructed asteroid, Remove of any id handed out so far: live, already
\* removed, the template's own, or repeated) flushed by apply_changes
\* ======================================================================
InitApply ==
    /\ NEXT_UID = 1
    /\ asteroids = <<>>
    /\ asteroid_changes = <<>>
    /\ last = [op |-> "init"]
    /\ uid_threads = UidIdle
    /\ keys = KeysIdle
    /\ uid_issued = {}
    /\ uid_held = {}
    /\ uid_retired = {}
    /\ GameIdle

\* asteroid_changes.push(Change::Add(Asteroid::new(..))): create_debug_asteroid
QueueAdd ==
    /\ Len(asteroid_changes) < MaxLog
    /\ NEXT_UID < MaxUid
    /\ asteroid_changes' =
           Append(asteroid_changes, Add(SeedAsteroid(NEXT_UID, 3 * SCALE, 0)))
    /\ NEXT_UID' = generate_uid(NEXT_UID).new
    /\ last' = [op |-> "queue"]
    /\ UNCHANGED <<asteroids, uidVars, keys, gameVars>>

\* asteroid_changes.push(Change::Remove(id))
QueueRemove ==
    \E uid \in 1..(NEXT_UID - 1) :
        /\ Len(asteroid_changes) < MaxLog
        /\ asteroid_changes' = Append(asteroid_changes, Remove(uid))
        /\ last' = [op |-> "queue"]
        /\ UNCHANGED <<NEXT_UID, asteroids, uidVars, keys, gameVars>>

NextApply == QueueAdd \/ QueueRemove \/ FlushStep

SpecApply == InitApply /\ [][NextApply]_vars

AddsOf(changes) == SelectSeq(changes, LAMBDA c : c.kind = "Add")
RemovedIds(changes) ==
    {changes[k].id : k \in {j \in 1..Len(changes) : changes[j].kind = "Remove"}}
IdsOf(vec) == {vec[k].id : k \in 1..Len(vec)}

\* ----------------------------------------------------------------------
\* C4: apply_changes appends, for each Add(t), a copy of t whose id is newly
\* allocated: greater than every id handed out before, so different from t's
\* own id and from the id of every queued Remove; every entity the batch adds
\* is in the collection afterwards, wherever the Removes sit in the batch.
C4_AddedIdsFresh ==
    last.op = "apply" =>
        LET adds == AddsOf(last.changes_before)
            n == Len(adds)
            m == Len(asteroids)
        IN /\ NEXT_UID = last.uid_before + n
           /\ m >= n
           /\ \A j \in 1..n :
                LET e == asteroids[m - n + j] IN
                /\ e.id = last.uid_before + j - 1
                /\ e = [adds[j].item EXCEPT !.id = e.id]
                /\ e.id # adds[j].item.id
                /\ e.id \notin RemovedIds(last.changes_before)
                /\ \A x \in IdsOf(last.vec_before) : x < e.id
                /\ \A k \in 1..n : adds[k].item.id < e.id

\* a batch that names the template's id in a Remove after its Add
C4_Witness ==
    /\ last.op = "apply"
    /\ \E k, l \in 1..Len(last.changes_before) :
          /\ k < l
          /\ last.changes_before[k].kind = "Add"
          /\ last.changes_before[l] = Remove(last.changes_before[k].item.id)
    /\ last.vec_before # <<>>
    /\ Len(asteroids) > Len(AddsOf(last.changes_before))

\* ----------------------------------------------------------------------
\* C5: apply_changes treats Remove(id) of an id that is not in the collection
\* as a no-op, repeated Remove(id) entries as one, keeps every entity that no
\* Remove names, unchanged and in its order, and leaves the log empty.
C5_ApplyRemoves ==
    last.op = "apply" =>
        LET removed == RemovedIds(last.changes_before)
            survivors == SelectSeq(last.vec_before, LAMBDA x : x.id \notin removed)
            n == Len(AddsOf(last.changes_before))
        IN /\ asteroid_changes = <<>>
           /\ Len(asteroids) = Len(survivors) + n
           /\ SubSeq(asteroids, 1, Len(survivors)) = survivors

\* a batch with a repeated Remove of a live id and a Remove of an absent id,
\* applied to a collection of which something stays
C5_Witness ==
    /\ last.op = "apply"
    /\ \E k, l, m \in 1..Len(last.changes_before) :
          /\ k < l
          /\ last.changes_before[k].kind = "Remove"
          /\ last.changes_before[l] = last.changes_before[k]
          /\ last.changes_before[k].id \in IdsOf(last.vec_before)
          /\ last.changes_before[m].kind = "Remove"
          /\ last.changes_before[m].id \notin IdsOf(last.vec_before)
    /\ asteroids # <<>>
    /\ Len(asteroids) < Len(last.vec_before)

\* ======================================================================
\* SpecUid: NumThreads threads call generate_uid concurrently; the
\* fetch_add is one atomic step, the caller sees the value afterwards;
\* entities holding an id come and go
\* ======================================================================
InitUid ==
    /\ NEXT_UID = 1
    /\ asteroids = <<>>
    /\ asteroid_changes = <<>>
    /\ last = [op |-> "init"]
    /\ uid_threads = UidIdle
    /\ keys = KeysIdle
    /\ uid_issued = {}
    /\ uid_held = {}
    /\ uid_retired = {}
    /\ GameIdle

\* NEXT_UID.fetch_add(1, Ordering::Relaxed)
UidFetchAdd(t) ==
    /\ uid_threads[t].pc = "idle"
    /\ uid_threads[t].calls < MaxCalls
    /\ uid_threads' = [uid_threads EXCEPT ![t] =
           [pc |-> "fetched", ret |-> generate_uid(NEXT_UID).ret,
            prev |-> uid_threads[t].prev, calls |-> uid_threads[t].calls + 1]]
    /\ NEXT_UID' = generate_uid(NEXT_UID).new
    /\ UNCHANGED <<asteroids, asteroid_changes, last, uid_issued, uid_held, uid_retired,
                   gameVars, keys>>

\* the call returns: the caller builds its entity with the id
UidReturn(t) ==
    /\ uid_threads[t].pc = "fetched"
    /\ uid_threads' = [uid_threads EXCEPT ![t].pc = "idle",
                                          ![t].prev = uid_threads[t].ret]
    /\ uid_issued' = uid_issued \cup {uid_threads[t].ret}
    /\ uid_held' = uid_held \cup {uid_threads[t].ret}
    /\ UNCHANGED <<NEXT_UID, asteroids, asteroid_changes, last, uid_retired, gameVars,
                   keys>>

\* the oldest entity is removed from its collection; its id is not given back
UidRemoveEntity ==
    \E uid \in uid_held :
        /\ \A other \in uid_held : uid <= other
        /\ uid_held' = uid_held \ {uid}
        /\ uid_retired' = uid_retired \cup {uid}
        /\ UNCHANGED <<NEXT_UID, asteroids, asteroid_changes, last, uid_threads,
                       uid_issued, gameVars, keys>>

NextUid ==
    \/ \E t \in 1..NumThreads : UidFetchAdd(t)
    \/ \E t \in 1..NumThreads : UidReturn(t)
    \/ UidRemoveEntity

SpecUid == InitUid /\ [][NextUid]_vars

\* ----------------------------------------------------------------------
\* C10: generate_uid returns a value >= 1 on every call; the calls of one
\* thread return strictly increasing values; no two calls, of one thread or
\* of different threads in any interleaving, return the same value; and a
\* value is not handed out again after the entity holding it is removed.
\* (Stated of the value a call is about to return, against all returned
\* before it and all being returned with it.)
UidFetched == {t \in 1..NumThreads : uid_threads[t].pc = "fetched"}

UidReturns(t) ==
    IF uid_threads[t].pc = "fetched" THEN uid_threads[t].calls - 1
    ELSE uid_threads[t].calls

RECURSIVE UidReturnsUpTo(_)
UidReturnsUpTo(t) == IF t = 0 THEN 0 ELSE UidReturns(t) + UidReturnsUpTo(t - 1)

C10_UidsUnique ==
    /\ \A v \in uid_issued : v >= 1
    /\ Cardinality(uid_issued) = UidReturnsUpTo(NumThreads)
    /\ uid_issued = uid_held \cup uid_retired
    /\ \A t \in UidFetched :
          /\ uid_threads[t].ret >= 1
          /\ uid_threads[t].ret > uid_threads[t].prev
          /\ uid_threads[t].ret \notin uid_issued
          /\ \A u \in UidFetched : u # t => uid_threads[u].ret # uid_threads[t].ret

\* two threads are inside generate_uid at once, after an id was retired
C10_Witness ==
    /\ Cardinality(UidFetched) >= 2
    /\ uid_retired # {}
    /\ \E t \in UidFetched : uid_threads[t].prev >= 1

\* ======================================================================
\* Spec: the frames of main, from the state Gamestate::new builds and from
\* states of a game in progress
\* ======================================================================
\* real time between two frames (get_time() - previous_time): half a tick
\* and three ticks and a half
ElapsedChoices == {TICKS \div 2, 7 * (TICKS \div 2)}
\* add_rotation(rng.gen_range(1.0..PI)), in eighths of a turn
KickChoices == {2}
\* the offset of the popup: rng.gen_range(-50.0..=50.0), (-100.0..=100.0)
TextOffsetChoices == {<<0, 0>>}
\* the draws of one discrete step for splits of n children
StepDraws(n) ==
    [speed_factor : SpeedFactorChoices, factor : [0..(n - 1) -> TurnFactorChoices],
     sign : SignChoices(n), text_offset : TextOffsetChoices]
\* rng.gen_range(0..=100) <= 50, one draw per asteroid
CoinChoices(n) ==
    {[i \in 1..n |-> TRUE], [i \in 1..n |-> FALSE], [i \in 1..n |-> i % 2 = 1]}

NoInput == [pressed |-> {}, held |-> {}, scroll |-> <<>>]
Pressed(action) == [NoInput EXCEPT !.pressed = {action}]
Held(action) == [NoInput EXCEPT !.held = {action}]
\* what the listener has recorded when handle_input runs: the actions whose
\* combination is in just_pressed, those in pressed_keys, and the accumulated
\* scroll entries (ScrollUp:n as n, ScrollDown:n as -n)
InputChoices ==
    {NoInput, Pressed("Confirm"), Pressed("Escape"), Pressed("ToggleDebug"),
     Held("Fire"), Held("FireHoming"), Held("Pause"), Held("Accelerate"),
     [NoInput EXCEPT !.held = {"Pause", "Accelerate"}],
     [pressed |-> {"Confirm", "Escape"}, held |-> {"SlowDown", "SpeedUp"},
      scroll |-> <<1>>]}
\* the button under the mouse when it is clicked, "" for no click
ClickChoices == {"", "Quit", "Clear", "Split all", "Get Hardware",
                 "Spawn Debug Asteroids"}

\* a game in progress: the ship in the middle of the screen, a large asteroid
\* overlapping it and a small one far away, the others destroyed
MidGameAsteroids ==
    <<[id |-> 2, position |-> <<(ScreenWidth \div 2) + 60, ScreenHeight \div 2>>,
       speed |-> 120, size |-> 3 * SCALE, rotation |-> 2, direction |-> 2,
       speed_multiplier |-> 100, turn_rate |-> 1],
      [id |-> 3, position |-> <<200, 200>>, speed |-> 150, size |-> SCALE,
       rotation |-> 3, direction |-> 0, speed_multiplier |-> 100, turn_rate |-> -1]>>

MidGame(shield, invulnerability) ==
    [Gamestate_new(1) EXCEPT
        !.simulation_speed = SpeedOne, !.menu = <<>>,
        !.number_of_asteroids = Len(MidGameAsteroids),
        !.score = <<0, 3400>>,
        !.spaceship = [@ EXCEPT !.shield = shield,
                                !.invulnerability = invulnerability]]

Init ==
    /\ \/ /\ gamestate = Gamestate_new(1)
          /\ asteroids = <<>>
          /\ NEXT_UID = generate_uid(1).new
       \/ /\ \E shield \in {3 * 100, 3 * 10}, invulnerability \in {0, TICKS} :
                gamestate = MidGame(shield, invulnerability)
          /\ asteroids = MidGameAsteroids
          /\ NEXT_UID = 4
    /\ asteroid_changes = <<>>
    /\ pc = "frame"
    /\ end_cooldown_age \in {0, Seconds(1, 2)}
    /\ frame = FrameIdle
    /\ last = [op |-> "init"]
    /\ uid_threads = UidIdle
    /\ keys = KeysIdle
    /\ uid_issued = {}
    /\ uid_held = {}
    /\ uid_retired = {}

\* main.rs 104-117: delta_time, then accumulator += delta_time
FrameBeginWith(limit, elapsed_choices) ==
    /\ pc = "frame"
    /\ frame.number < limit
    /\ \E elapsed \in elapsed_choices :
         \E dt \in {TDiv(elapsed * gamestate.simulation_speed, SpeedOne)} :
         /\ gamestate' = [gamestate EXCEPT !.delta_time = dt, !.accumulator = @ + dt]
         /\ end_cooldown_age' = Min(end_cooldown_age + elapsed, Seconds(1, 2))
         /\ frame' = [frame EXCEPT !.number = @ + 1, !.a0 = gamestate.accumulator,
                                   !.elapsed = elapsed, !.steps = 0]
    /\ pc' = "steps"
    /\ last' = [op |-> "frame"]
    /\ UNCHANGED <<NEXT_UID, asteroids, asteroid_changes, uidVars, keys>>

FrameBegin == FrameBeginWith(MaxFrames, ElapsedChoices)

RemovedIn(changes) ==
    {changes[k].id : k \in {n \in 1..Len(changes) : changes[n].kind = "Remove"}}

\* main.rs 118-258: one iteration of the while loop
DiscreteStep ==
    /\ pc = "steps"
    /\ gamestate.accumulator >= TICKS
    /\ \E rng \in StepDraws(NumToCreate(CanAdd(gamestate), gamestate.asteroids_children)),
          kick \in KickChoices, coin \in CoinChoices(Len(asteroids)) :
         \E r \in {discrete_step(gamestate, asteroids, asteroid_changes, NEXT_UID,
                                  end_cooldown_age, rng, kick, coin)} :
            /\ gamestate' = r.g
            /\ asteroid_changes' = r.asteroid_changes
            /\ NEXT_UID' = r.uid
            /\ end_cooldown_age' = r.age
            /\ frame' = [frame EXCEPT
                            !.steps = @ + 1,
                            !.splits = @ \o MapSeq(
                                SelectSeq(r.events, LAMBDA e : e.kind = "split"),
                                LAMBDA e : e.asteroid),
                            !.removed = @ \cup RemovedIn(r.asteroid_changes)
                                          \cup RemovedIn(r.g.missile_changes)
                                          \cup RemovedIn(r.g.text_changes)]
            /\ last' = [op |-> "step", events |-> r.events,
                        ship_before |-> gamestate.spaceship,
                        missiles_before |-> gamestate.missiles,
                        culled |-> r.culled,
                        missiles |-> r.g.missiles]
    /\ UNCHANGED <<asteroids, pc, uidVars, keys>>

\* main.rs 260-261: the loop is left, update_all (draw_all changes nothing)
UpdateAll ==
    /\ pc = "steps"
    /\ gamestate.accumulator < TICKS
    /\ \E r \in {update_all(gamestate, asteroids, asteroid_changes, NEXT_UID)} :
          /\ gamestate' = r.g
          /\ asteroids' = r.asteroids
          /\ asteroid_changes' = r.asteroid_changes
          /\ NEXT_UID' = r.uid
    /\ pc' = "input"
    /\ last' = [op |-> "update"]
    /\ UNCHANGED <<end_cooldown_age, frame, uidVars, keys>>

\* key_bindings.rs 377-391: the debug toggle and the Start menu; clear_events
\* empties just_pressed, which the checks that follow read
StartMenuInput(g, asts, uid, input) ==
    With(IF "ToggleDebug" \in input.pressed THEN [g EXCEPT !.debug = ~@] ELSE g,
         LAMBDA g0 :
    With(get_last_menu_item(g0) = "Start", LAMBDA start :
    With(IF start /\ "Confirm" \in input.pressed THEN reset(g0, uid)
         ELSE [g |-> g0, asteroids |-> asts, uid |-> uid], LAMBDA r :
         IF start /\ "Escape" \in input.pressed
         THEN [g |-> [r.g EXCEPT !.exit = TRUE], asteroids |-> r.asteroids,
               uid |-> r.uid, pressed |-> {}, scroll |-> <<>>]
         ELSE [g |-> r.g, asteroids |-> r.asteroids, uid |-> r.uid,
               pressed |-> input.pressed, scroll |-> input.scroll])))

\* a pause menu that is pushed whatever the stack holds
PauseMenuStacks(g, pressed) ==
    IF "Escape" \in pressed
    THEN [g EXCEPT !.menu = Append(@, "Main")]
    ELSE g

\* key_bindings.rs 394-400: Escape opens the pause menu or closes the top menu
PauseMenuInput(g, pressed) ==
    IF "Escape" \in pressed
    THEN [g EXCEPT !.menu = IF @ = <<>> THEN <<"Main">> ELSE Pop(@)]
    ELSE g

\* key_bindings.rs 403-429: thrust, rotation, stop
ShipInput(ship, delta_time, running, held, pressed) ==
    With(TDiv(ship.turn_rate * delta_time, UnitsPerSec * MilliRadPerEighth),
         LAMBDA turn :
    With(IF "SpeedUp" \in held /\ running
         THEN move_spaceship(ship, delta_time, TRUE) ELSE ship, LAMBDA ship1 :
    With(IF "SpeedDown" \in held /\ running
         THEN move_spaceship(ship1, delta_time, FALSE) ELSE ship1, LAMBDA ship2 :
    With(IF "MoveLeft" \in held /\ running
         THEN add_rotation(ship2, -turn) ELSE ship2, LAMBDA ship3 :
    With(IF "MoveRight" \in held /\ running
         THEN add_rotation(ship3, turn) ELSE ship3, LAMBDA ship4 :
         IF "Stop" \in pressed THEN [ship4 EXCEPT !.speed = 0] ELSE ship4)))))

\* key_bindings.rs 432-440
FireInput(g, uid, held) ==
    IF /\ g.spaceship.alive /\ g.spaceship.fire_cooldown <= 0 /\ "Fire" \in held
       /\ g.simulation_speed > 0 /\ (g.debug \/ g.menu = <<>>)
    THEN With(summon_missile(g, FALSE, uid), LAMBDA r :
              [g |-> [r.g EXCEPT !.spaceship.fire_cooldown = Seconds(3, 20)],
               uid |-> r.uid])
    ELSE [g |-> g, uid |-> uid]

\* key_bindings.rs 443-452
FireHomingInput(g, uid, held) ==
    IF /\ g.spaceship.alive /\ g.spaceship.missile_capacity > 0
       /\ g.spaceship.hom_cooldown <= 0 /\ "FireHoming" \in held
       /\ g.simulation_speed > 0 /\ (g.debug \/ g.menu = <<>>)
    THEN With(summon_missile(g, TRUE, uid), LAMBDA r :
              [g |-> [r.g EXCEPT !.spaceship.hom_cooldown = Seconds(4, 5)],
               uid |-> r.uid])
    ELSE [g |-> g, uid |-> uid]

RECURSIVE ScrollFrom(_, _, _)
ScrollFrom(ship, scroll, k) ==
    IF k > Len(scroll) THEN ship
    ELSE With(modify_capacity(ship, scroll[k]), LAMBDA ship1 :
              ScrollFrom(ship1, scroll, k + 1))

\* key_bindings.rs 456-472: the scroll actions, then the accumulated entries
ScrollInput(ship, running, pressed, scroll) ==
    With(IF "ScrollUp" \in pressed /\ running THEN modify_capacity(ship, 1) ELSE ship,
         LAMBDA ship1 :
    With(IF "ScrollDown" \in pressed /\ running THEN modify_capacity(ship1, -1)
         ELSE ship1, LAMBDA ship2 :
         ScrollFrom(ship2, scroll, 1)))

\* key_bindings.rs 475-483: the later of the held actions wins
TimeInput(simulation_speed, held) ==
    IF "SlowDown" \in held THEN SimSpeed(3, 40)
    ELSE IF "Accelerate" \in held THEN SimSpeed(5, 1)
    ELSE IF "Pause" \in held THEN 0
    ELSE simulation_speed

\* key_bindings.rs 374-486
handle_input(g, asts, uid, input) ==
    With(StartMenuInput(g, asts, uid, input), LAMBDA r1 :
    With(PauseMenuInput(r1.g, r1.pressed), LAMBDA g2 :
    With([g2 EXCEPT !.spaceship = ShipInput(g2.spaceship, g2.delta_time,
                                            g2.simulation_speed > 0,
                                            input.held, r1.pressed)], LAMBDA g3 :
    With(FireInput(g3, r1.uid, input.held), LAMBDA r4 :
    With(FireHomingInput(r4.g, r4.uid, input.held), LAMBDA r5 :
         [g |-> [r5.g EXCEPT
                    !.spaceship = ScrollInput(@, r5.g.simulation_speed > 0,
                                              r1.pressed, r1.scroll),
                    !.simulation_speed = TimeInput(@, input.held)],
          asteroids |-> r1.asteroids, uid |-> r5.uid])))))

\* main.rs 263
HandleInputWith(inputs) ==
    /\ pc = "input"
    /\ \E input \in inputs :
         \E r \in {handle_input(gamestate, asteroids, NEXT_UID, input)} :
            /\ gamestate' = r.g
            /\ asteroids' = r.asteroids
            /\ NEXT_UID' = r.uid
            /\ last' = [op |-> "input",
                        reset |-> /\ get_last_menu_item(gamestate) = "Start"
                                  /\ "Confirm" \in input.pressed]
            /\ frame' = [frame EXCEPT !.held = input.held]
    /\ pc' = "menu"
    /\ UNCHANGED <<asteroid_changes, end_cooldown_age, uidVars, keys>>

HandleInput == HandleInputWith(InputChoices)

\* menus.rs 45-279: the action the click returns, and the menu it may push
menu_draw(g, click) ==
    IF get_last_menu_item(g) = "Main"
    THEN IF click = "Quit" THEN [g |-> g, action |-> "Exit"]
         ELSE IF click = "Clear" THEN [g |-> g, action |-> "Clear"]
         ELSE IF click = "Split all" THEN [g |-> g, action |-> "Split All"]
         ELSE IF click = "Spawn Debug Asteroids"
         THEN [g |-> g, action |-> "Summon Asteroid"]
         ELSE IF click = "Get Hardware"
         THEN [g |-> [g EXCEPT !.menu = Append(@, "Hardware")], action |-> ""]
         ELSE [g |-> g, action |-> ""]
    ELSE [g |-> g, action |-> ""]

\* main.rs 268-281: match action.as_str()
menu_action(g, asts, changes, uid, action, rng) ==
    IF action = "Clear"
    THEN [g |-> [g EXCEPT !.score = <<0, 0>>], asteroids |-> <<>>,
          asteroid_changes |-> changes, uid |-> uid]
    ELSE IF action = "Split All"
    THEN With(split_all_asteroids(g, asts, changes, uid, rng), LAMBDA r :
              [g |-> g, asteroids |-> asts, asteroid_changes |-> r.change_list,
               uid |-> r.uid])
    ELSE IF action = "Summon Asteroid"
    THEN With(create_debug_asteroid(g, changes, uid), LAMBDA r :
              [g |-> g, asteroids |-> asts, asteroid_changes |-> r.change_list,
               uid |-> r.uid])
    ELSE [g |-> g, asteroids |-> asts, asteroid_changes |-> changes, uid |-> uid]

\* main.rs 266-287: the menu, its action, and the end of the frame
MenuDrawWith(clicks) ==
    /\ pc = "menu"
    /\ \E click \in clicks, rng \in StepDraws(gamestate.asteroids_children) :
         \E m \in {menu_draw(gamestate, click)} :
           \E r \in {menu_action(m.g, asteroids, asteroid_changes, NEXT_UID,
                                 m.action, rng)} :
              /\ gamestate' = r.g
              /\ asteroids' = r.asteroids
              /\ asteroid_changes' = r.asteroid_changes
              /\ NEXT_UID' = r.uid
              /\ pc' = IF m.action = "Exit" \/ r.g.exit THEN "done" ELSE "frame"
    /\ last' = [op |-> "menu"]
    /\ UNCHANGED <<end_cooldown_age, frame, uidVars, keys>>

MenuDraw == MenuDrawWith(ClickChoices)

Next == FrameBegin \/ DiscreteStep \/ UpdateAll \/ HandleInput \/ MenuDraw

Spec == Init /\ [][Next]_vars

\* ======================================================================
\* Properties of the discrete step and of the frame (Spec)
\* ======================================================================
\* what the discrete step just taken did, in the order it did it
StepEvents == IF last.op = "step" THEN last.events ELSE <<>>
EventsOf(kind, a) ==
    {k \in 1..Len(StepEvents) : StepEvents[k].kind = kind /\ StepEvents[k].asteroid = a}
SplitsBy(cause, a) == {k \in EventsOf("split", a) : StepEvents[k].by = cause}
\* the asteroids two or more missiles collided with in that step
HitTwice ==
    {a \in {StepEvents[k].asteroid : k \in 1..Len(StepEvents)} :
        Cardinality(EventsOf("missile", a)) >= 2}
\* whether a removal of a was already queued when its first missile hit it
GuardedAtFirstHit(a) ==
    StepEvents[CHOOSE k \in EventsOf("missile", a) :
                   \A j \in EventsOf("missile", a) : k <= j].already_removed
MissilesQueued(a) ==
    \A k \in EventsOf("missile", a) :
        StepEvents[k].missile \in RemovedIn(gamestate.missile_changes)

\* C6 (as amended): when two or more missiles collide with one asteroid within
\* a discrete step, every colliding missile is queued for removal, and the
\* missile pass splits the asteroid and grants its score exactly once each when
\* no removal of the asteroid was queued before the first hit, and not at all
\* when one was (by the ship collision of that step or by a change not yet
\* applied)
C6_MissilePassOnce ==
    \A a \in HitTwice :
        /\ Cardinality(SplitsBy("missile", a)) = (IF GuardedAtFirstHit(a) THEN 0 ELSE 1)
        /\ Cardinality(EventsOf("score", a)) = (IF GuardedAtFirstHit(a) THEN 0 ELSE 1)
        /\ MissilesQueued(a)

\* two missiles hit an asteroid nothing had queued for removal: one split, one
\* score, both missiles queued
C6_Witness ==
    \E a \in HitTwice :
        /\ ~GuardedAtFirstHit(a)
        /\ Cardinality(SplitsBy("missile", a)) = 1
        /\ Cardinality(EventsOf("score", a)) = 1
        /\ MissilesQueued(a)

\* C6 as stated: split is invoked on the asteroid exactly once and its score
\* granted exactly once, whatever else happened to the asteroid
C6_Original ==
    \A a \in HitTwice :
        /\ Cardinality(EventsOf("split", a)) = 1
        /\ Cardinality(EventsOf("score", a)) = 1
        /\ MissilesQueued(a)

\* C7: every discrete step starts with empty asteroid, missile and text change
\* logs, and no entity whose removal an earlier step queued is still in its
\* collection
C7_LogsEmptyAtStepStart ==
    (pc = "steps" /\ gamestate.accumulator >= TICKS) =>
        /\ asteroid_changes = <<>>
        /\ gamestate.missile_changes = <<>>
        /\ gamestate.text_changes = <<>>
        /\ \A k \in 1..Len(asteroids) : asteroids[k].id \notin frame.removed
        /\ \A k \in 1..Len(gamestate.missiles) :
               gamestate.missiles[k].id \notin frame.removed
        /\ \A k \in 1..Len(gamestate.texts) : gamestate.texts[k].id \notin frame.removed

\* C8: a collision of the alive, vulnerable ship with an asteroid of size s
\* takes 5/3 * (s / SCALE + 1)^2 off the shield, floored at 0; a shield that
\* ends at 0 leaves the ship dead at the end of that step; and the ship is
\* never dead with a positive shield
C8_ShieldAndLife ==
    /\ \A k \in 1..Len(StepEvents) :
          StepEvents[k].kind = "ship" =>
             /\ last.ship_before.alive
             /\ StepEvents[k].shield_after =
                    Max(StepEvents[k].shield_before - CollisionDamage(StepEvents[k].size), 0)
             /\ StepEvents[k].shield_after <= 0 => ~gamestate.spaceship.alive
    /\ ~gamestate.spaceship.alive => gamestate.spaceship.shield <= 0

\* shield 10 against size 3 * SCALE: damage 26.67, shield 0, the ship dead
C8_Witness ==
    \E k \in 1..Len(StepEvents) :
        /\ StepEvents[k].kind = "ship"
        /\ StepEvents[k].shield_before = 3 * 10
        /\ StepEvents[k].size = 3 * SCALE
        /\ CollisionDamage(StepEvents[k].size) = 80
        /\ StepEvents[k].shield_after = 0
        /\ ~gamestate.spaceship.alive

IdSeq(vec) == [k \in 1..Len(vec) |-> vec[k].id]
LiveIdSeq ==
    <<gamestate.spaceship.id>> \o IdSeq(asteroids) \o IdSeq(gamestate.missiles)
        \o IdSeq(gamestate.texts)
\* the entities of after that were in before are those of before that remain,
\* in the same order; every other one carries an id not issued before
KeptInOrder(before, after, issued) ==
    /\ SelectSeq(IdSeq(after), LAMBDA i : i < issued) =
           SelectSeq(IdSeq(before), LAMBDA i : i \in IdsOf(after))
    /\ \A k \in 1..Len(after) :
           after[k].id < issued => after[k].id \in IdsOf(before)

\* C11: the ship and every asteroid, missile and floating text in its
\* collection have pairwise distinct ids, all of them issued by the counter;
\* and a step of the program leaves the id of every entity that stays in its
\* collection as it was: what it adds carries an id never issued before
C11_IdsDistinctAndStable ==
    /\ [](/\ \A i, j \in 1..Len(LiveIdSeq) : i # j => LiveIdSeq[i] # LiveIdSeq[j]
          /\ \A i \in 1..Len(LiveIdSeq) : 1 <= LiveIdSeq[i] /\ LiveIdSeq[i] < NEXT_UID)
    /\ [][/\ KeptInOrder(asteroids, asteroids', NEXT_UID)
          /\ KeptInOrder(gamestate.missiles, gamestate'.missiles, NEXT_UID)
          /\ KeptInOrder(gamestate.texts, gamestate'.texts, NEXT_UID)
          /\ \/ gamestate'.spaceship.id = gamestate.spaceship.id
             \/ gamestate'.spaceship.id >= NEXT_UID]_vars

\* after a split by a missile and the application of the logs: the children
\* and the popup are in their collections beside an older asteroid
C11_Witness ==
    /\ last.op = "update"
    /\ Len(gamestate.texts) >= 1
    /\ Len(asteroids) >= 3
    /\ \E k \in 1..Len(asteroids) : asteroids[k].id = 3

\* ======================================================================
\* SpecThrust: a ship whose speed is within max_speed, under any sequence of
\* move_spaceship calls (forward or backward, any delta_time >= 0)
\* ======================================================================
\* the collections and counters the ship harnesses leave alone
RestIdle ==
    /\ NEXT_UID = generate_uid(1).new
    /\ asteroids = <<>>
    /\ asteroid_changes = <<>>
    /\ uid_threads = UidIdle
    /\ keys = KeysIdle
    /\ uid_issued = {}
    /\ uid_held = {}
    /\ uid_retired = {}
    /\ end_cooldown_age = 0
    /\ frame = FrameIdle
restVars ==
    <<NEXT_UID, asteroids, asteroid_changes, uidVars, keys, end_cooldown_age, frame>>

\* delta_time of a call: nothing, half a tick, a tick, a second at 5.0, ten
\* seconds
ThrustTimes == {0, TICKS \div 2, TICKS, 5 * Seconds(1, 1), Seconds(10, 1)}
ThrustSpeeds == {-500, -499, -120, 0, 300, 500}

InitThrust ==
    /\ \E speed \in ThrustSpeeds :
          gamestate = [Gamestate_new(1) EXCEPT !.spaceship.speed = speed]
    /\ pc = "ship"
    /\ last = [op |-> "init"]
    /\ RestIdle

\* key_bindings.rs 403-412: move_spaceship(delta_time, true / false)
Thrust ==
    /\ pc = "ship"
    /\ \E delta_time \in ThrustTimes, movement_type \in BOOLEAN :
          /\ gamestate' = [gamestate EXCEPT
                              !.spaceship = move_spaceship(@, delta_time, movement_type)]
          /\ last' = [op |-> "thrust", speed_before |-> gamestate.spaceship.speed,
                      delta_time |-> delta_time, movement_type |-> movement_type]
    /\ UNCHANGED <<pc, restVars>>

SpecThrust == InitThrust /\ [][Thrust]_vars

\* speed + 150 * direction * factor * dt of the call just made
UnclampedSpeed ==
    LET direction == IF last.movement_type THEN 1 ELSE -1
        factor == IF (last.speed_before < 0) = last.movement_type THEN 3 ELSE 1
    IN last.speed_before + TDiv(150 * direction * factor * last.delta_time, UnitsPerSec)

\* C12: after any sequence of move_spaceship calls from |speed| <= max_speed
\* the speed is within max_speed in magnitude; a call whose unclamped result
\* reaches or exceeds max_speed in magnitude leaves exactly +max_speed or
\* -max_speed, any other call leaves the unclamped result
C12_SpeedWithinMax ==
    /\ Abs(gamestate.spaceship.speed) <= gamestate.spaceship.max_speed
    /\ last.op = "thrust" =>
          IF Abs(UnclampedSpeed) >= gamestate.spaceship.max_speed
          THEN Abs(gamestate.spaceship.speed) = gamestate.spaceship.max_speed
          ELSE gamestate.spaceship.speed = UnclampedSpeed

\* a thrust of ten seconds against the motion: the unclamped result is beyond
\* -max_speed and the speed is -max_speed
C12_Witness ==
    /\ last.op = "thrust"
    /\ last.speed_before > 0
    /\ ~last.movement_type
    /\ UnclampedSpeed < -gamestate.spaceship.max_speed
    /\ gamestate.spaceship.speed = -gamestate.spaceship.max_speed

\* ======================================================================
\* SpecCapacity: the ship under any sequence of modify_capacity calls
\* ======================================================================
\* i8 deltas: the extremes, the scroll steps, and those of the example
CapacityDeltas == {-128, -127, -5, -1, 0, 1, 3, 127}

InitCapacity ==
    /\ gamestate = Gamestate_new(1)
    /\ pc = "ship"
    /\ last = [op |-> "init"]
    /\ RestIdle

\* key_bindings.rs 456-471: modify_capacity(delta)
ModifyCapacity ==
    /\ pc = "ship"
    /\ \E delta \in CapacityDeltas :
          /\ gamestate' = [gamestate EXCEPT !.spaceship = modify_capacity(@, delta)]
          /\ last' = [op |-> "capacity", delta |-> delta,
                      capacity_before |-> gamestate.spaceship.missile_capacity]
    /\ UNCHANGED <<pc, restVars>>

\* -delta overflows for delta = i8::MIN: a build with overflow checks panics
\* there and the call never returns
ModifyCapacityPanic ==
    /\ pc = "ship"
    /\ -128 \in CapacityDeltas
    /\ pc' = "panic"
    /\ last' = [op |-> "panic", delta |-> -128,
                capacity_before |-> gamestate.spaceship.missile_capacity]
    /\ UNCHANGED <<gamestate, restVars>>

NextCapacity == ModifyCapacity \/ ModifyCapacityPanic
SpecCapacity == InitCapacity /\ [][NextCapacity]_vars

\* C13: after every call of modify_capacity the capacity is in [0, 254]: the
\* sum with the delta where that is in range, 0 below it and 254 above it
C13_CapacityInRange ==
    /\ 0 <= gamestate.spaceship.missile_capacity
    /\ gamestate.spaceship.missile_capacity <= 254
    /\ last.op = "capacity" =>
          gamestate.spaceship.missile_capacity =
              Max(0, Min(254, last.capacity_before + last.delta))

\* a positive delta whose sum is beyond u8::MAX stops at 254
C13_Witness ==
    /\ last.op = "capacity"
    /\ last.delta > 0
    /\ last.capacity_before + last.delta > 255
    /\ gamestate.spaceship.missile_capacity = 254

\* ======================================================================
\* SpecCollide: collides_with on pairs of a ship, an asteroid and a missile
\* ======================================================================
\* where the asteroid and the missile are, from the ship: on it, at distances
\* equal to a sum of two sizes (55, 115, 29, 34), just inside, just outside, far
CollideOffsets ==
    {<<0, 0>>, <<33, 44>>, <<-33, 44>>, <<69, 92>>, <<20, 21>>, <<-21, -20>>,
     <<34, 0>>, <<54, 0>>, <<56, 0>>, <<0, -200>>}
CollidePlace(offset) ==
    <<(ScreenWidth \div 2) + offset[1], (ScreenHeight \div 2) + offset[2]>>

InitCollide ==
    /\ gamestate \in
          {[Gamestate_new(1) EXCEPT
               !.missiles = <<[Missile_new(CollidePlace(offset), 500, 0, FALSE,
                                           <<-100, -100>>, 3) EXCEPT !.size = size]>>] :
             offset \in CollideOffsets, size \in {0, 4}}
    /\ asteroids \in
          {<<[SeedAsteroid(2, size, 1) EXCEPT !.position = CollidePlace(offset)]>> :
             offset \in CollideOffsets, size \in {0, SCALE, 3 * SCALE}}
    /\ NEXT_UID = 4
    /\ asteroid_changes = <<>>
    /\ pc = "collide"
    /\ last = [op |-> "init"]
    /\ uid_threads = UidIdle
    /\ keys = KeysIdle
    /\ uid_issued = {}
    /\ uid_held = {}
    /\ uid_retired = {}
    /\ end_cooldown_age = 0
    /\ frame = FrameIdle

\* main.rs 140, 175: a.collides_with(&b), and the same call the other way round
Collide ==
    /\ pc = "collide"
    /\ \E a, b \in {gamestate.spaceship, asteroids[1], gamestate.missiles[1]} :
          last' = [op |-> "collide", a |-> a, b |-> b,
                   ab |-> collides_with(a, b), ba |-> collides_with(b, a)]
    /\ UNCHANGED <<gamestate, pc, restVars>>

SpecCollide == InitCollide /\ [][Collide]_vars

\* C14: a.collides_with(b) = b.collides_with(a) for entities of any kinds, and
\* it is true exactly when the distance of the positions is strictly less than
\* the sum of the sizes
C14_CollidesSymmetric ==
    last.op = "collide" =>
        /\ last.ab = last.ba
        /\ last.ab <=> /\ last.a.size + last.b.size > 0
                       /\ DistanceSquared(last.a.position, last.b.position) <
                              (last.a.size + last.b.size) * (last.a.size + last.b.size)

\* the ship and an asteroid at a distance equal to the sum of their sizes: no
\* collision, either way round
C14_Witness ==
    /\ last.op = "collide"
    /\ last.a.id # last.b.id
    /\ last.a.size # last.b.size
    /\ DistanceSquared(last.a.position, last.b.position) =
           (last.a.size + last.b.size) * (last.a.size + last.b.size)
    /\ ~last.ab
    /\ ~last.ba

\* ======================================================================
\* SpecFlight: missiles fired by a ship near an edge of the screen, and the
\* frames of main that follow (no menu, no other input)
\* ======================================================================
\* where the ship is and where it points (eighths of a turn, y downward)
FlightShips ==
    {[position |-> <<ScreenWidth - 10, ScreenHeight \div 2>>, rotation |-> 0],
     [position |-> <<ScreenWidth - 40, ScreenHeight \div 2>>, rotation |-> 0],
     [position |-> <<ScreenWidth \div 2, 10>>, rotation |-> 2],
     [position |-> <<15, 15>>, rotation |-> 3],
     [position |-> <<ScreenWidth \div 2, ScreenHeight - 10>>, rotation |-> -2],
     [position |-> <<ScreenWidth \div 2, ScreenHeight \div 2>>, rotation |-> 4]}

InitFlight ==
    /\ \E ship \in FlightShips :
          gamestate = [MidGame(3 * 100, 0) EXCEPT
                          !.number_of_asteroids = 1,
                          !.spaceship.position = ship.position,
                          !.spaceship.rotation = ship.rotation]
    /\ asteroids = <<[SeedAsteroid(2, SCALE, 1) EXCEPT
                         !.position = <<600, ScreenHeight \div 2>>, !.speed = 0]>>
    /\ NEXT_UID = 3
    /\ asteroid_changes = <<>>
    /\ pc = "input"
    /\ last = [op |-> "init"]
    /\ uid_threads = UidIdle
    /\ keys = KeysIdle
    /\ uid_issued = {}
    /\ uid_held = {}
    /\ uid_retired = {}
    /\ end_cooldown_age = 0
    /\ frame = FrameIdle

FlightInput == HandleInputWith({NoInput, Held("Fire")})
FlightMenu == MenuDrawWith({""})
FlightFrame == FrameBeginWith(MaxFlightFrames, ElapsedChoices)
NextFlight == FlightInput \/ FlightMenu \/ FlightFrame \/ DiscreteStep \/ UpdateAll
SpecFlight == InitFlight /\ [][NextFlight]_vars

\* the non-homing missiles of a collection
Ballistic(missiles) ==
    {missiles[k] : k \in {j \in 1..Len(missiles) : ~missiles[j].homing}}

\* C15: a non-homing missile keeps its rotation and its speed, and an update
\* moves it along that rotation by speed * delta_time; it has size 0 exactly
\* when its position is outside the screen; and a discrete step that finds it
\* outside queues its removal in the cull pass and flushes it: it is not in
\* the collection after the step
C15_MissileLeavesScreen ==
    /\ [](/\ \A m \in Ballistic(gamestate.missiles) :
                (m.size = 0) <=> is_out_of_bounds(m)
          /\ last.op = "step" =>
                \A m \in Ballistic(last.missiles_before) :
                    is_out_of_bounds(m) =>
                        m.id \in last.culled /\ m.id \notin IdsOf(gamestate.missiles))
    /\ [][\A m \in Ballistic(gamestate.missiles) :
            \A n \in Ballistic(gamestate'.missiles) :
               n.id = m.id =>
                  /\ n.rotation = m.rotation
                  /\ n.speed = m.speed
                  /\ n.position =
                        IF last'.op = "update"
                        THEN <<m.position[1] + Displacement(Cos(m.rotation), m.speed,
                                                            gamestate'.delta_time),
                               m.position[2] + Displacement(-Sin(m.rotation), m.speed,
                                                            gamestate'.delta_time)>>
                        ELSE m.position]_vars

\* a missile fired with the ship's rotation has left the screen in an update,
\* and the step just taken has culled it
C15_Witness ==
    /\ last.op = "step"
    /\ \E m \in Ballistic(last.missiles_before) :
          /\ m.size = 0
          /\ is_out_of_bounds(m)
          /\ m.rotation = gamestate.spaceship.rotation
          /\ m.id \in last.culled
          /\ m.id \notin IdsOf(gamestate.missiles)

\* ======================================================================
\* SpecEnding: the frames of main from the end of a game, the last asteroid
\* (of the smallest size) on the ship, with debug mode off or on
\* ======================================================================
InitEnding ==
    /\ \E shield \in {3 * 100, 3 * 5}, debug \in BOOLEAN :
          gamestate = [MidGame(shield, 0) EXCEPT !.debug = debug,
                                                 !.number_of_asteroids = 1,
                                                 !.score = <<3300, 3400>>]
    /\ asteroids = <<[SeedAsteroid(2, SCALE, 1) EXCEPT
                         !.position = <<(ScreenWidth \div 2) + 20, ScreenHeight \div 2>>]>>
    /\ NEXT_UID = 3
    /\ asteroid_changes = <<>>
    /\ pc = "frame"
    /\ end_cooldown_age \in {0, Seconds(1, 2)}
    /\ frame = FrameIdle
    /\ last = [op |-> "init"]
    /\ uid_threads = UidIdle
    /\ keys = KeysIdle
    /\ uid_issued = {}
    /\ uid_held = {}
    /\ uid_retired = {}

SpecEnding == InitEnding /\ [][Next]_vars

\* the simulation runs when update_ending is reached in update_all
RunningAtEnding == update_simulation_speed(gamestate).simulation_speed > 0
Terminals(menu) == {k \in 1..Len(menu) : menu[k] = "Start"}
\* update_all has just found no asteroid left while the simulation ran: the
\* ending is flagged and the terminal menu pushed on the empty stack
EndingFlagged ==
    /\ gamestate.menu = <<>>
    /\ gamestate'.menu = <<"Start">>
    /\ gamestate.spaceship.alive => gamestate'.win
    /\ ~gamestate.spaceship.alive => gamestate'.over

\* C16 (as amended): with debug mode off, an update_all that recounts 0
\* asteroids while the simulation runs sets win for a live ship and over for
\* a dead one and pushes 'Start' on the empty menu stack; in every mode
\* update_all pushes nothing but one 'Start' on an empty stack, and the stack
\* never holds two of them
C16_EndingPushedOnce ==
    /\ [](Cardinality(Terminals(gamestate.menu)) <= 1)
    /\ [][last'.op = "update" =>
            /\ (~gamestate.debug /\ RunningAtEnding
                    /\ gamestate'.number_of_asteroids = 0) => EndingFlagged
            /\ gamestate'.menu # gamestate.menu =>
                   gamestate.menu = <<>> /\ gamestate'.menu = <<"Start">>]_vars

\* the last asteroid has killed the ship, debug mode off: over is set and the
\* terminal menu is the only entry of the stack
C16_Witness ==
    /\ last.op = "update"
    /\ ~gamestate.debug
    /\ ~gamestate.spaceship.alive
    /\ gamestate.number_of_asteroids = 0
    /\ gamestate.over
    /\ gamestate.menu = <<"Start">>

\* C16 as stated: whenever update_all recounts 0 asteroids while the
\* simulation runs, the ending is flagged and the terminal menu pushed
C16_Original ==
    [][(last'.op = "update" /\ RunningAtEnding /\ gamestate'.number_of_asteroids = 0)
          => EndingFlagged]_vars

\* ======================================================================
\* SpecWreck: the frames of main after the ship was destroyed, its
\* invulnerability run out, the last asteroid (of the smallest size) drifting
\* over the wreck; the simulation runs at the speed update_ending has set, or
\* at the speed of a held Accelerate
\* ======================================================================
InitWreck ==
    /\ \E speed \in {SimSpeed(1, 10), SimSpeed(5, 1)} :
          gamestate = [MidGame(0, 0) EXCEPT !.spaceship.alive = FALSE,
                                            !.simulation_speed = speed,
                                            !.accumulator = TICKS - 1,
                                            !.number_of_asteroids = 1,
                                            !.score = <<3300, 3400>>]
    /\ asteroids = <<[SeedAsteroid(2, SCALE, 1) EXCEPT
                         !.position = <<(ScreenWidth \div 2) + 20, ScreenHeight \div 2>>]>>
    /\ NEXT_UID = 3
    /\ asteroid_changes = <<>>
    /\ pc = "frame"
    /\ end_cooldown_age \in {0, Seconds(1, 2)}
    /\ frame = FrameIdle
    /\ last = [op |-> "init"]
    /\ uid_threads = UidIdle
    /\ keys = KeysIdle
    /\ uid_issued = {}
    /\ uid_held = {}
    /\ uid_retired = {}

SpecWreck == InitWreck /\ [][Next]_vars

\* handle_input has just called Gamestate::reset
ResetDone == last'.op = "input" /\ last'.reset
ShipEvents(events) == {k \in 1..Len(events) : events[k].kind = "ship"}

\* C17: a ship that is not alive becomes alive only in the handle_input that
\* calls Gamestate::reset; in every other step taken while it is not alive the
\* shield keeps its value, a discrete step runs no ship collision, and no
\* missile is added to the collection
C17_DeadUntilReset ==
    [][~gamestate.spaceship.alive =>
          /\ gamestate'.spaceship.alive => ResetDone
          /\ ~ResetDone =>
                /\ gamestate'.spaceship.shield = gamestate.spaceship.shield
                /\ last'.op = "step" => ShipEvents(last'.events) = {}
                /\ IdsOf(gamestate'.missiles) \subseteq IdsOf(gamestate.missiles)]_vars

\* a discrete step has run with the wreck under an asteroid, its
\* invulnerability run out: the ship is as it was
C17_Witness ==
    /\ last.op = "step"
    /\ ~last.ship_before.alive
    /\ last.ship_before.invulnerability <= 0
    /\ \E k \in 1..Len(asteroids) : collides_with(asteroids[k], last.ship_before)
    /\ gamestate.spaceship = last.ship_before

\* ======================================================================
\* Pausing (Spec)
\* ======================================================================
\* the simulation is paused when the frame ends: a menu is on the stack with
\* debug mode off, or Pause was held at handle_input
Paused == (gamestate.menu # <<>> /\ ~gamestate.debug) \/ "Pause" \in frame.held

\* C18 as stated: when a frame ends with the simulation paused, the
\* multiplier the next frame applies to its elapsed time is 0, so its
\* delta_time is 0 (no entity advances) and its accumulator stays under one
\* tick (no discrete step), whatever else is held
C18_PausedFrameStill ==
    [][(pc = "frame" /\ Paused /\ last'.op = "frame") =>
          /\ gamestate.simulation_speed = 0
          /\ gamestate'.delta_time = 0
          /\ gamestate'.accumulator < TICKS]_vars

\* ======================================================================
\* Calls of split by the discrete steps (Spec)
\* ======================================================================
SplitCalls(a) == {k \in 1..Len(frame.splits) : frame.splits[k] = a}

\* C19 as stated: the discrete steps (ship collision, missile collision and
\* attrition together, over all the steps of a frame) call split at most once
\* on any asteroid
C19_SplitAtMostOnce ==
    \A k \in 1..Len(frame.splits) : Cardinality(SplitCalls(frame.splits[k])) <= 1

\* ======================================================================
\* SpecCrowded: the frames of main with the asteroid budget used up
\* (number_of_asteroids + asteroids_children = asteroid_limit), the ship
\* nearly out of shield under the one asteroid of the largest size; no menu is
\* opened and no debug command given
\* ======================================================================
CrowdCount == Gamestate_new(1).asteroid_limit - Gamestate_new(1).asteroids_children

CrowdAsteroids ==
    [k \in 1..CrowdCount |->
        IF k = 1
        THEN [SeedAsteroid(2, 3 * SCALE, 2) EXCEPT
                 !.position = <<(ScreenWidth \div 2) + 60, ScreenHeight \div 2>>]
        ELSE [SeedAsteroid(k + 1, 2 * SCALE, 1) EXCEPT
                 !.position = <<100 * ((k % 12) + 1),
                                IF k <= 12 THEN 100 ELSE ScreenHeight - 100>>]]

InitCrowded ==
    /\ \E shield \in {3 * 100, 3 * 10} :
          gamestate = [MidGame(shield, 0) EXCEPT !.number_of_asteroids = CrowdCount]
    /\ asteroids = CrowdAsteroids
    /\ NEXT_UID = CrowdCount + 2
    /\ asteroid_changes = <<>>
    /\ pc = "frame"
    /\ end_cooldown_age \in {0, Seconds(1, 2)}
    /\ frame = FrameIdle
    /\ last = [op |-> "init"]
    /\ uid_threads = UidIdle
    /\ keys = KeysIdle
    /\ uid_issued = {}
    /\ uid_held = {}
    /\ uid_retired = {}

CrowdedInput == HandleInputWith({NoInput, Held("Fire")})
CrowdedMenu == MenuDrawWith({""})
NextCrowded == FrameBegin \/ DiscreteStep \/ UpdateAll \/ CrowdedInput \/ CrowdedMenu
SpecCrowded == InitCrowded /\ [][NextCrowded]_vars

\* C20 as stated: when number_of_asteroids + asteroids_children >=
\* asteroid_limit while the discrete steps of a frame run, the log that
\* update_all applies holds at most one child per asteroid it removes, and the
\* collection is not longer after the application than before
C20_NoGrowthAtLimit ==
    [][(last'.op = "update" /\ ~CanAdd(gamestate)) =>
          /\ Len(AddsOf(asteroid_changes)) <= Cardinality(RemovedIds(asteroid_changes))
          /\ Len(asteroids') <= Len(asteroids)]_vars

\* ======================================================================
\* SpecSwarm: the frames of main with the ship under two asteroids at once
\* ======================================================================
SwarmAsteroids ==
    <<[SeedAsteroid(2, 2 * SCALE, 2) EXCEPT
          !.position = <<(ScreenWidth \div 2) + 40, ScreenHeight \div 2>>],
      [SeedAsteroid(3, SCALE, 3) EXCEPT
          !.position = <<(ScreenWidth \div 2) - 30, (ScreenHeight \div 2) + 10>>]>>

InitSwarm ==
    /\ \E shield \in {3 * 100, 3 * 20}, invulnerability \in {0, TICKS \div 2} :
          gamestate = MidGame(shield, invulnerability)
    /\ asteroids = SwarmAsteroids
    /\ NEXT_UID = 4
    /\ asteroid_changes = <<>>
    /\ pc = "frame"
    /\ end_cooldown_age \in {0, Seconds(1, 2)}
    /\ frame = FrameIdle
    /\ last = [op |-> "init"]
    /\ uid_threads = UidIdle
    /\ keys = KeysIdle
    /\ uid_issued = {}
    /\ uid_held = {}
    /\ uid_retired = {}

SpecSwarm == InitSwarm /\ [][Next]_vars

\* the asteroids the ship touched when the discrete step just taken began
TouchedBefore ==
    {k \in 1..Len(asteroids) : collides_with(asteroids[k], last.ship_before)}

\* C22: a discrete step lowers the shield only when the ship it finds is
\* alive with invulnerability <= 0; it then runs one ship collision and no
\* more, which leaves the invulnerability at 0.4 s; a discrete step that finds
\* the invulnerability above 0 runs none and leaves the shield as it is
C22_OneHitPerStep ==
    (last.op = "step" =>
          /\ Cardinality(ShipEvents(last.events)) <= 1
          /\ gamestate.spaceship.shield <= last.ship_before.shield
          /\ gamestate.spaceship.shield < last.ship_before.shield =>
                /\ Vulnerable(last.ship_before)
                /\ gamestate.spaceship.invulnerability = Seconds(2, 5)
          /\ ~Vulnerable(last.ship_before) =>
                /\ ShipEvents(last.events) = {}
                /\ gamestate.spaceship.shield = last.ship_before.shield)

\* the ship was vulnerable under two asteroids: the step has lowered the
\* shield by the damage of the first of them only
C22_Witness ==
    /\ last.op = "step"
    /\ Vulnerable(last.ship_before)
    /\ Cardinality(TouchedBefore) >= 2
    /\ Cardinality(ShipEvents(last.events)) = 1
    /\ gamestate.spaceship.alive
    /\ gamestate.spaceship.shield =
          last.ship_before.shield - CollisionDamage(asteroids[1].size)

\* ======================================================================
\* Score of a discrete step (SpecSwarm, Spec)
\* ======================================================================
ScoreEvents(events) == SelectSeq(events, LAMBDA e : e.kind = "score")
Awards(events) == SumSeq(MapSeq(ScoreEvents(events), LAMBDA e : e.award))
SizeOf(uid) == (CHOOSE a \in {asteroids[k] : k \in 1..Len(asteroids)} : a.id = uid).size
\* 100 times the entry of the table [3, 2, 1] for the tier
TierScore(size) ==
    IF size = SCALE THEN 300 ELSE IF size = 2 * SCALE THEN 200
    ELSE IF size = 3 * SCALE THEN 100 ELSE 0

\* C23: a discrete step adds to score[0] the awards of its missile splits and
\* nothing else, one award and one queued floating text per missile split,
\* the award being 300, 200 or 100 for an asteroid of size SCALE, 2*SCALE or
\* 3*SCALE; the splits by ship collision and by attrition award nothing
C23_ScoreOfMissileSplits ==
    [][last'.op = "step" =>
          /\ gamestate'.score[1] = gamestate.score[1] + Awards(last'.events)
          /\ Len(ScoreEvents(last'.events)) =
                Cardinality({k \in 1..Len(last'.events) :
                                /\ last'.events[k].kind = "split"
                                /\ last'.events[k].by = "missile"})
          /\ Len(AddsOf(gamestate'.text_changes)) =
                Len(AddsOf(gamestate.text_changes)) + Len(ScoreEvents(last'.events))
          /\ \A k \in 1..Len(last'.events) :
                last'.events[k].kind = "score" =>
                   /\ k > 1
                   /\ last'.events[k - 1] = [kind |-> "split", by |-> "missile",
                                             asteroid |-> last'.events[k].asteroid]
                   /\ last'.events[k].award = TierScore(SizeOf(last'.events[k].asteroid))
                   /\ last'.events[k].award =
                         100 * gamestate.multipliers[SizeOf(last'.events[k].asteroid)
                                                        \div SCALE]]_vars

\* a step in which the ship collision has split one asteroid (no award) and a
\* missile another one of size SCALE: the score has grown by 300
C23_Witness ==
    /\ last.op = "step"
    /\ \E k \in 1..Len(last.events) :
          last.events[k].kind = "split" /\ last.events[k].by = "ship"
    /\ \E k \in 1..Len(last.events) :
          last.events[k].kind = "score" /\ last.events[k].award = 300
    /\ gamestate.score[1] = Awards(last.events)

\* ======================================================================
\* SpecHunt: the end of a game in which every asteroid but one has been
\* destroyed by missiles; the last one (of size 2*SCALE) is on the ship, which
\* is nearly out of shield, and a homing missile is on its way to it
\* ======================================================================
MaxHuntFrames == 3
\* what reset computed, and what the missiles have earned since
HuntMaximum == get_max_score(ResetAsteroids(2), Gamestate_new(1).multipliers,
                             Gamestate_new(1).asteroids_children)
HuntEarned == HuntMaximum - accumulate_size(2 * SCALE, Gamestate_new(1).asteroids_children,
                                            Gamestate_new(1).multipliers)
HuntMissile(distance) ==
    [Missile_new(<<(ScreenWidth \div 2) + 40, (ScreenHeight \div 2) - distance>>,
                 400, -2, TRUE, <<(ScreenWidth \div 2) + 40, ScreenHeight \div 2>>, 3)
        EXCEPT !.lifetime = Seconds(19, 1), !.turn_rate = 4000]

InitHunt ==
    /\ \E distance \in {65, 90} :
          gamestate = [MidGame(3 * 10, 0) EXCEPT
                          !.number_of_asteroids = 1,
                          !.score = <<HuntEarned, HuntMaximum>>,
                          !.missiles = <<HuntMissile(distance)>>]
    /\ asteroids = <<[SeedAsteroid(2, 2 * SCALE, 2) EXCEPT
                         !.position = <<(ScreenWidth \div 2) + 40, ScreenHeight \div 2>>]>>
    /\ NEXT_UID = 4
    /\ asteroid_changes = <<>>
    /\ pc = "frame"
    /\ end_cooldown_age \in {0, Seconds(1, 2)}
    /\ frame = FrameIdle
    /\ last = [op |-> "init"]
    /\ uid_threads = UidIdle
    /\ keys = KeysIdle
    /\ uid_issued = {}
    /\ uid_held = {}
    /\ uid_retired = {}

HuntFrame == FrameBeginWith(MaxHuntFrames, ElapsedChoices)
HuntInput == HandleInputWith({NoInput, Held("Accelerate")})
HuntMenu == MenuDrawWith({""})
NextHunt == HuntFrame \/ DiscreteStep \/ UpdateAll \/ HuntInput \/ HuntMenu
SpecHunt == InitHunt /\ [][NextHunt]_vars

ScoreSizes ==
    {-SCALE, 0, SCALE \div 2, SCALE - 1, SCALE, SCALE + (SCALE \div 2), 2 * SCALE,
     3 * SCALE, (4 * SCALE) - 1, 4 * SCALE, 5 * SCALE}
MaxScoreTotal == 3000

InitScore ==
    /\ gamestate = Gamestate_new(1)
    /\ pc = "score"
    /\ last = [op |-> "init"]
    /\ RestIdle

\* Asteroid::grant_score on an asteroid of the given size: the award is added
\* to score[0]
GrantScore ==
    /\ pc = "score"
    /\ gamestate.score[1] < MaxScoreTotal
    /\ \E size \in ScoreSizes :
          /\ ScoreIndex(size) + 1 <= Len(gamestate.multipliers)
          /\ \E award \in {compute_score(100, gamestate.multipliers, size)} :
                /\ gamestate' = [gamestate EXCEPT !.score[1] = @ + award]
                /\ last' = [op |-> "score", size |-> size, award |-> award]
    /\ UNCHANGED <<pc, restVars>>

\* multipliers[index] with the index beyond the table: the bounds check of the
\* Vec panics and the call never returns
GrantScorePanic ==
    /\ pc = "score"
    /\ \E size \in ScoreSizes :
          /\ ScoreIndex(size) + 1 > Len(gamestate.multipliers)
          /\ last' = [op |-> "panic", size |-> size]
    /\ pc' = "panic"
    /\ UNCHANGED <<gamestate, restVars>>

NextScore == GrantScore \/ GrantScorePanic
SpecScore == InitScore /\ [][NextScore]_vars

\* C25 as stated: compute_score returns only when size/SCALE - 1 is an index
\* of the multiplier table, so no call returns for a size below SCALE or for
\* a size of (table length + 1) * SCALE and more
C25_FailsFast ==
    last.op = "score" =>
        /\ last.size >= SCALE
        /\ last.size < (Len(gamestate.multipliers) + 1) * SCALE

\* ======================================================================
\* Asteroid sizes
\* ======================================================================
Tiers == {SCALE, 2 * SCALE, 3 * SCALE}
QueuedAsteroids == MapSeq(AddsOf(asteroid_changes), LAMBDA c : c.item)

\* C26: every asteroid of the collection and every asteroid carried by a
\* queued Add has size SCALE, 2*SCALE or 3*SCALE, and the table index of every
\* score computed by a step is 0, 1 or 2
C26_SizesOnTiers ==
    /\ \A k \in 1..Len(asteroids) : asteroids[k].size \in Tiers
    /\ \A k \in 1..Len(QueuedAsteroids) : QueuedAsteroids[k].size \in Tiers
    /\ last.op = "step" =>
          \A k \in 1..Len(last.events) :
             last.events[k].kind = "score" =>
                ScoreIndex(SizeOf(last.events[k].asteroid)) \in 0..2

\* a step has split an asteroid of size 3*SCALE: children of size 2*SCALE
\* are queued
C26_Witness ==
    /\ last.op = "step"
    /\ \E k \in 1..Len(last.events) :
          /\ last.events[k].kind = "split"
          /\ SizeOf(last.events[k].asteroid) = 3 * SCALE
    /\ \E k \in 1..Len(QueuedAsteroids) : QueuedAsteroids[k].size = 2 * SCALE

\* ======================================================================
\* SpecDrift: Spaceship::update on a ship of any speed, within max_speed and
\* beyond it on either side
\* ======================================================================
DriftSpeeds == {-700, -501, -500, -120, 0, 300, 500, 501, 700}
DriftTimes == {0, TICKS, Seconds(1, 10), Seconds(1, 4)}
MaxDriftCalls == 3

InitDrift ==
    /\ \E speed \in DriftSpeeds, rotation \in {0, 2, 3} :
          gamestate = [Gamestate_new(1) EXCEPT !.spaceship.speed = speed,
                                               !.spaceship.rotation = rotation]
    /\ pc = "ship"
    /\ last = [op |-> "init"]
    /\ RestIdle

\* Gamestate::update_spaceship: self.spaceship.update(delta_time)
ShipUpdate ==
    /\ pc = "ship"
    /\ frame.number < MaxDriftCalls
    /\ \E delta_time \in DriftTimes :
          /\ gamestate' = [gamestate EXCEPT !.spaceship = spaceship_update(@, delta_time)]
          /\ last' = [op |-> "integrate", ship_before |-> gamestate.spaceship,
                      delta_time |-> delta_time]
    /\ frame' = [frame EXCEPT !.number = @ + 1]
    /\ UNCHANGED <<pc, NEXT_UID, asteroids, asteroid_changes, uidVars, keys,
                   end_cooldown_age>>

SpecDrift == InitDrift /\ [][ShipUpdate]_vars

\* the position has not been wrapped to an edge by the update
Unwrapped(position) ==
    /\ position[1] \notin {0, ScreenWidth}
    /\ position[2] \notin {0, ScreenHeight}

\* C27 as stated: after update the speed is within max_speed in magnitude and
\* the ship has moved by at most max_speed * dt on each axis
C27_SpeedClampedBothSides ==
    last.op = "integrate" =>
        /\ Abs(gamestate.spaceship.speed) <= gamestate.spaceship.max_speed
        /\ Unwrapped(gamestate.spaceship.position) =>
              \A axis \in 1..2 :
                 Abs(gamestate.spaceship.position[axis] - last.ship_before.position[axis])
                    <= TDiv(gamestate.spaceship.max_speed * last.delta_time, UnitsPerSec)

\* ======================================================================
\* The size of one thrust
\* ======================================================================
\* C28 as stated: one move_spaceship call changes the speed by at most
\* 150 * factor * dt in magnitude (factor 3 against the sign of the speed, 1
\* with it), so a call with dt = 0 leaves the speed as it was
C28_ThrustStepBounded ==
    last.op = "thrust" =>
        Abs(gamestate.spaceship.speed - last.speed_before)
           <= Abs(UnclampedSpeed - last.speed_before)

\* ======================================================================
\* SpecGuide: a homing missile in flight, early and late in its life, at
\* mid-screen or about to leave by the right edge, its target far away
\* ======================================================================
MaxGuideFrames == 3
GuideMissile(x, turn_rate, lifetime) ==
    [Missile_new(<<x, ScreenHeight \div 2>>, 500, 0, TRUE, <<600, 300>>, 3)
        EXCEPT !.turn_rate = turn_rate, !.lifetime = lifetime]

InitGuide ==
    /\ \E x \in {ScreenWidth \div 2, ScreenWidth - 20},
          turn_rate \in {7500, 1100, 1001},
          lifetime \in {Seconds(19, 1), Seconds(1, 40), 0} :
          gamestate = [MidGame(3 * 100, Seconds(3, 1)) EXCEPT
                          !.number_of_asteroids = 1,
                          !.spaceship.position = <<200, ScreenHeight - 200>>,
                          !.missiles = <<GuideMissile(x, turn_rate, lifetime)>>]
    /\ asteroids = <<[SeedAsteroid(2, 2 * SCALE, 1) EXCEPT
                         !.position = <<600, 300>>, !.speed = 0]>>
    /\ NEXT_UID = 4
    /\ asteroid_changes = <<>>
    /\ pc = "frame"
    /\ last = [op |-> "init"]
    /\ uid_threads = UidIdle
    /\ keys = KeysIdle
    /\ uid_issued = {}
    /\ uid_held = {}
    /\ uid_retired = {}
    /\ end_cooldown_age = 0
    /\ frame = FrameIdle

GuideFrame == FrameBeginWith(MaxGuideFrames, ElapsedChoices)
GuideInput == HandleInputWith({NoInput, Held("Accelerate")})
GuideMenu == MenuDrawWith({""})
NextGuide == GuideFrame \/ DiscreteStep \/ UpdateAll \/ GuideInput \/ GuideMenu
SpecGuide == InitGuide /\ [][NextGuide]_vars

\* the missile of that id in a collection, as a set of at most one
MissileOf(missiles, id) == {missiles[k] : k \in {j \in 1..Len(missiles) : missiles[j].id = id}}

\* C29 as stated: the update of a homing missile that applies the decay
\* (turn_rate > 1.0 before it) leaves turn_rate at 1.0 or more
C29_DecayFloor ==
    [][last'.op = "update" =>
          \A k \in 1..Len(gamestate.missiles) :
             (gamestate.missiles[k].homing /\ gamestate.missiles[k].turn_rate > 1000
                 /\ gamestate.missiles[k].lifetime > 0) =>
                \A m \in MissileOf(gamestate'.missiles, gamestate.missiles[k].id) :
                   m.turn_rate >= 1000]_vars

\* ======================================================================
\* The end of a homing missile's lifetime
\* ======================================================================
Expired(m) == m.homing /\ m.lifetime <= 0
HitIn(events, id) ==
    \E k \in 1..Len(events) : events[k].kind = "missile" /\ events[k].missile = id

\* C30: an update of a homing missile whose lifetime has run out sets its
\* turn_rate to 0 and leaves its rotation and lifetime as they are; lifetime
\* is decremented only while positive and only for homing missiles; a missile
\* is removed, has a Remove queued or has its size set to 0 only for leaving
\* the bounds or hitting an asteroid, never for its lifetime
C30_ExpiredCoasts ==
    [][/\ last'.op = "update" =>
             \A k \in 1..Len(gamestate.missiles) :
                With(gamestate.missiles[k], LAMBDA m :
                   /\ m.id \notin RemovedIn(gamestate.missile_changes) =>
                         MissileOf(gamestate'.missiles, m.id) # {}
                   /\ \A n \in MissileOf(gamestate'.missiles, m.id) :
                         /\ Expired(m) => /\ n.turn_rate = 0
                                          /\ n.rotation = Rem(m.rotation, 8)
                         /\ n.lifetime = IF m.homing /\ m.lifetime > 0
                                         THEN m.lifetime - gamestate.delta_time
                                         ELSE m.lifetime
                         /\ n.size # m.size => n.size = 0 /\ is_out_of_bounds(n))
       /\ last'.op = "step" =>
             \A k \in 1..Len(gamestate.missiles) :
                With(gamestate.missiles[k], LAMBDA m :
                   /\ MissileOf(gamestate'.missiles, m.id) = {} =>
                         \/ is_out_of_bounds(m)
                         \/ m.id \in RemovedIn(gamestate.missile_changes)
                   /\ m.id \in RemovedIn(gamestate'.missile_changes) =>
                         HitIn(last'.events, m.id))]_vars

\* a homing missile that had no lifetime left before the last update is in
\* bounds, in the collection, at full size and with no turning authority, and
\* no Remove is queued for it
C30_Witness ==
    /\ last.op = "update"
    /\ \E k \in 1..Len(gamestate.missiles) :
          /\ Expired(gamestate.missiles[k])
          /\ gamestate.missiles[k].lifetime < 0
          /\ gamestate.missiles[k].turn_rate = 0
          /\ gamestate.missiles[k].size = 4
          /\ ~is_out_of_bounds(gamestate.missiles[k])
          /\ gamestate.missiles[k].id \notin RemovedIn(gamestate.missile_changes)
    /\ frame.steps > 0

\* ======================================================================
\* SpecGraze: a homing missile grazing the top edge of the screen while the
\* game runs in slow motion (the ship is destroyed, simulation speed 0.1), so
\* that several frames pass between two discrete steps. A missile turns by
\* about a hundredth of a radian and moves by less than a pixel in such a
\* frame: its position is kept in thousandths of a pixel and its rotation in
\* milliradians, next to the whole-pixel position that the cull, find_nearest
\* and collides_with read
\* ======================================================================
MilliPerPixel == 1000
MilliRadPi == 3142
MaxGrazeFrames == 8

\* 1000 * sin and cos of an angle in milliradians (Bhaskara's rational
\* approximation on a half turn)
HalfTurnSin(x) ==
    TDiv(16000 * TDiv(x * (MilliRadPi - x), 100),
         TDiv((5 * MilliRadPi * MilliRadPi) - (4 * x * (MilliRadPi - x)), 100))
FineSin(mrad) ==
    LET r == Rem(mrad, 2 * MilliRadPi)
        x == IF r < 0 THEN r + (2 * MilliRadPi) ELSE r
    IN IF x <= MilliRadPi THEN HalfTurnSin(x) ELSE -HalfTurnSin(x - MilliRadPi)
FineCos(mrad) == FineSin(mrad + (MilliRadPi \div 2))

\* the whole pixel of a coordinate, rounded away from the screen when the
\* coordinate is outside [0, bound]
ToPixel(c, bound) ==
    IF c < 0 THEN -(((-c) + MilliPerPixel - 1) \div MilliPerPixel)
    ELSE IF c > bound * MilliPerPixel
         THEN bound + (((c - (bound * MilliPerPixel)) + MilliPerPixel - 1) \div MilliPerPixel)
         ELSE c \div MilliPerPixel
ToPixels(milli) == <<ToPixel(milli[1], ScreenWidth), ToPixel(milli[2], ScreenHeight)>>

\* Missile::target_object on the fine rotation
TargetObjectFine(self, target_pos, delta_time) ==
    LET dx == target_pos[1] - self.position[1]
        dy == target_pos[2] - self.position[2]
        target_angle == -(MilliRadPerEighth * Atan2(dy, dx))
        raw_diff == target_angle - self.mrad
        angle_diff == IF raw_diff > MilliRadPi THEN raw_diff - (2 * MilliRadPi)
                      ELSE IF raw_diff < -MilliRadPi THEN raw_diff + (2 * MilliRadPi)
                      ELSE raw_diff
        max_turn == TDiv(self.turn_rate * delta_time, UnitsPerSec)
    IN IF Abs(angle_diff) > max_turn
       THEN (IF angle_diff > 0 THEN [self EXCEPT !.mrad = @ + max_turn]
             ELSE [self EXCEPT !.mrad = @ - max_turn])
       ELSE [self EXCEPT !.mrad = target_angle]

\* Missile::update on the fine position and rotation
MissileUpdateFine(self, potential_targets, delta_time) ==
    LET nearest_target == find_nearest(self, potential_targets)
        sped == [self EXCEPT !.speed = @ + TDiv(self.acceleration * delta_time, UnitsPerSec)]
        decayed == IF sped.turn_rate > 1000
                   THEN [sped EXCEPT !.turn_rate = @ - TDiv(3500 * delta_time, UnitsPerSec)]
                   ELSE sped
        target == IF nearest_target = <<>> THEN <<0, 0>> ELSE nearest_target[1]
        steered == IF decayed.lifetime > 0
                   THEN TargetObjectFine([decayed EXCEPT !.lifetime = @ - delta_time,
                                                         !.target = target],
                                         target, delta_time)
                   ELSE [decayed EXCEPT !.turn_rate = 0]
        m == IF self.homing THEN steered ELSE self
        mrad == Rem(m.mrad, 2 * MilliRadPi)
        x == m.milli[1] + TDiv(FineCos(mrad) * m.speed * delta_time, UnitsPerSec)
        y == m.milli[2] - TDiv(FineSin(mrad) * m.speed * delta_time, UnitsPerSec)
        moved == [m EXCEPT !.mrad = mrad, !.rotation = ToEighths(mrad),
                           !.milli = <<x, y>>, !.position = ToPixels(<<x, y>>)]
    IN IF is_out_of_bounds(moved) THEN [moved EXCEPT !.size = 0] ELSE moved

\* a homing missile fired a second ago, flying to the right along the top
\* edge, `height` thousandths of a pixel below it, heading up by `mrad`
GrazeMissile(height, mrad) ==
    [Missile_new(ToPixels(<<(ScreenWidth \div 2) * MilliPerPixel, height>>), 500,
                 ToEighths(mrad), TRUE, <<(ScreenWidth \div 2) + 300, 300>>, 3)
        EXCEPT !.lifetime = Seconds(19, 1), !.turn_rate = 4000]
      @@ [milli |-> <<(ScreenWidth \div 2) * MilliPerPixel, height>>, mrad |-> mrad]

InitGraze ==
    /\ \E height \in {5, 20, 400}, mrad \in {10, 20, 40}, accumulator \in {24, 40} :
          gamestate = [MidGame(0, 0) EXCEPT
                          !.spaceship.alive = FALSE,
                          !.simulation_speed = SimSpeed(1, 10),
                          !.accumulator = accumulator,
                          !.number_of_asteroids = 1,
                          !.missiles = <<GrazeMissile(height, mrad)>>]
    /\ asteroids = <<[SeedAsteroid(2, 2 * SCALE, 1) EXCEPT
                         !.position = <<(ScreenWidth \div 2) + 300, 300>>, !.speed = 0]>>
    /\ NEXT_UID = 4
    /\ asteroid_changes = <<>>
    /\ pc = "frame"
    /\ end_cooldown_age = 0
    /\ frame = FrameIdle
    /\ last = [op |-> "init"]
    /\ uid_threads = UidIdle
    /\ keys = KeysIdle
    /\ uid_issued = {}
    /\ uid_held = {}
    /\ uid_retired = {}

\* update_all, the missiles updated on their fine position and rotation
UpdateAllFine ==
    /\ pc = "steps"
    /\ gamestate.accumulator < TICKS
    /\ \E r \in {update_all(gamestate, asteroids, asteroid_changes, NEXT_UID)} :
       \E rm \in {apply_changes(MapSeq(gamestate.missiles,
                                       LAMBDA m : MissileUpdateFine(m, asteroids,
                                                                    gamestate.delta_time)),
                                gamestate.missile_changes, NEXT_UID)} :
          /\ gamestate' = [r.g EXCEPT !.missiles = rm.vec]
          /\ asteroids' = r.asteroids
          /\ asteroid_changes' = r.asteroid_changes
          /\ NEXT_UID' = r.uid
    /\ pc' = "input"
    /\ last' = [op |-> "update"]
    /\ UNCHANGED <<end_cooldown_age, frame, uidVars, keys>>

GrazeFrame == FrameBeginWith(MaxGrazeFrames, {TICKS})
GrazeInput == HandleInputWith({NoInput})
GrazeMenu == MenuDrawWith({""})
NextGraze == GrazeFrame \/ DiscreteStep \/ UpdateAllFine \/ GrazeInput \/ GrazeMenu
SpecGraze == InitGraze /\ [][NextGraze]_vars

\* C21 as stated: a missile whose size an update has set to 0 is removed by
\* the next cull pass, so no missile of size 0 is in the collection that a
\* discrete step tests against the asteroids and leaves behind
C21_NoSpentMissileAfterStep ==
    last.op = "step" =>
        \A k \in 1..Len(gamestate.missiles) : gamestate.missiles[k].size # 0

\* ======================================================================
\* SpecArcs: generate_positions_angles for a ship of any capacity it can
\* have, with the arcs summon_missile passes
\* ======================================================================
\* the capacity modify_capacity stops at: u8::MAX - 1
MaxCapacity == 254

InitArcs ==
    /\ \E capacity \in 0..MaxCapacity, rotation \in {0, 3} :
          gamestate = [Gamestate_new(1) EXCEPT !.spaceship.missile_capacity = capacity,
                                               !.spaceship.rotation = rotation]
    /\ pc = "ship"
    /\ last = [op |-> "init"]
    /\ RestIdle

\* general.rs 298-303: self.spaceship.generate_positions_angles(...)
GeneratePositions ==
    /\ pc = "ship"
    /\ last.op = "init"
    /\ last' = [op |-> "generate",
                positions |-> generate_positions_angles(gamestate.spaceship)]
    /\ UNCHANGED <<gamestate, pc, restVars>>

SpecArcs == InitArcs /\ [][GeneratePositions]_vars

\* the angles of a list of entries, less the ship's rotation
AnglesOf(positions, rotation) == [i \in 1..Len(positions) |-> positions[i].angle - rotation]

\* C33: for every capacity c in 0..=254 the list has N entries, N being c
\* rounded up to even and within u8; none for N = 0, the two fixed layouts for
\* N = 2 and N = 4, otherwise N/2 entries of the left arc (from PI/2 + 0.2,
\* angles growing) followed by N/2 of the right arc (from PI/2, angles
\* falling), every entry on the circle of radius special_radius at its angle
C33_VolleyLayout ==
    last.op = "generate" =>
        LET ship == gamestate.spaceship
            c == ship.missile_capacity
            N == 2 * ((c + 1) \div 2)
            angles == AnglesOf(last.positions, ship.rotation)
        IN /\ N <= 255
           /\ Len(last.positions) = N
           /\ \A i \in 1..N :
                 last.positions[i].position =
                     OnCircle(ship.position, ship.special_radius, last.positions[i].angle)
           /\ N = 2 => angles = <<2, 6>>
           /\ N = 4 => angles = <<ToEighths(2094), ToEighths(4189),
                                  ToEighths(1047), ToEighths(5236)>>
           /\ N > 4 =>
                 /\ angles[1] = ToEighths(1771)
                 /\ angles[(N \div 2) + 1] = ToEighths(1571)
                 /\ \A i \in 1..((N \div 2) - 1) :
                       /\ angles[i] <= angles[i + 1]
                       /\ angles[(N \div 2) + i] >= angles[(N \div 2) + i + 1]

\* the list of the largest odd capacity: 254 entries for c = 253
C33_Witness ==
    /\ last.op = "generate"
    /\ gamestate.spaceship.missile_capacity = MaxCapacity - 1
    /\ Len(last.positions) = MaxCapacity

\* ======================================================================
\* SpecVolley: the ship, of small, odd and full capacity, alive or destroyed,
\* its homing cooldown over or running, with the homing-fire key held or not
\* ======================================================================
MaxVolleyFrames == 2
VolleyCapacities == {0, 1, 2, 3, 4, 5, 6, 7, MaxCapacity - 1, MaxCapacity}

InitVolley ==
    /\ \E capacity \in VolleyCapacities, alive \in BOOLEAN,
          hom_cooldown \in {0, Seconds(2, 5)} :
          gamestate = [MidGame(3 * 100, Seconds(3, 1)) EXCEPT
                          !.number_of_asteroids = 1,
                          !.spaceship.missile_capacity = capacity,
                          !.spaceship.alive = alive,
                          !.spaceship.hom_cooldown = hom_cooldown]
    /\ asteroids = <<[SeedAsteroid(2, SCALE, 1) EXCEPT
                         !.position = <<600, 300>>, !.speed = 0]>>
    /\ NEXT_UID = 3
    /\ asteroid_changes = <<>>
    /\ pc = "input"
    /\ last = [op |-> "init"]
    /\ uid_threads = UidIdle
    /\ keys = KeysIdle
    /\ uid_issued = {}
    /\ uid_held = {}
    /\ uid_retired = {}
    /\ end_cooldown_age = 0
    /\ frame = FrameIdle

VolleyInput == HandleInputWith({NoInput, Held("FireHoming")})
VolleyMenu == MenuDrawWith({""})
VolleyFrame == FrameBeginWith(MaxVolleyFrames, {TICKS})
NextVolley == VolleyInput \/ VolleyMenu \/ VolleyFrame \/ DiscreteStep \/ UpdateAll
SpecVolley == InitVolley /\ [][NextVolley]_vars

\* the conditions of key_bindings.rs 443-448 in the state handle_input finds
MayFireHoming ==
    /\ gamestate.spaceship.alive
    /\ gamestate.spaceship.missile_capacity > 0
    /\ gamestate.spaceship.hom_cooldown <= 0
    /\ gamestate.simulation_speed > 0
    /\ gamestate.debug \/ gamestate.menu = <<>>

\* C34: a handle_input call that fires a homing volley adds exactly
\* missile_capacity missiles, homing, one at each of the first
\* missile_capacity entries of the generated list, which is long enough; a
\* volley is fired only when the ship is alive, its capacity is above 0 and
\* its homing cooldown is over, and otherwise no missile is added
C34_VolleyOfCapacity ==
    [][last'.op = "input" =>
          LET capacity == gamestate.spaceship.missile_capacity
              positions == generate_positions_angles(gamestate.spaceship)
              before == Len(gamestate.missiles)
          IN IF MayFireHoming /\ "FireHoming" \in frame'.held
             THEN /\ capacity <= Len(positions)
                  /\ Len(gamestate'.missiles) = before + capacity
                  /\ SubSeq(gamestate'.missiles, 1, before) = gamestate.missiles
                  /\ \A idx \in 1..capacity :
                        /\ gamestate'.missiles[before + idx].homing
                        /\ gamestate'.missiles[before + idx].position = positions[idx].position
                        /\ gamestate'.missiles[before + idx].rotation = positions[idx].angle
                  /\ gamestate'.spaceship.hom_cooldown = Seconds(4, 5)
             ELSE gamestate'.missiles = gamestate.missiles]_vars

\* a volley of 253 missiles, one short of the 254 generated entries, fired by
\* the ship at the largest odd capacity
C34_Witness ==
    /\ last.op = "input"
    /\ gamestate.spaceship.missile_capacity = MaxCapacity - 1
    /\ Len(gamestate.missiles) = MaxCapacity - 1
    /\ gamestate.spaceship.hom_cooldown = Seconds(4, 5)

\* ======================================================================
\* SpecNearest: find_nearest called by a missile on lists of asteroids, empty
\* or not, with candidates at equal and at different distances
\* ======================================================================
MaxCandidates == 3
\* about a caller at the screen centre: two pairs at equal distance (50 and
\* 130), one place apart, one on the caller
NearestPlaces ==
    {CollidePlace(<<30, 40>>), CollidePlace(<<-40, 30>>), CollidePlace(<<50, 120>>),
     CollidePlace(<<-120, -50>>), CollidePlace(<<0, 200>>), CollidePlace(<<0, 0>>)}
CandidateLists ==
    UNION {[1..n -> NearestPlaces] : n \in 0..MaxCandidates}

InitNearest ==
    /\ gamestate = [Gamestate_new(1) EXCEPT
                       !.missiles = <<Missile_new(CollidePlace(<<0, 0>>), 200, 0, TRUE,
                                                  <<-100, -100>>, 2)>>]
    /\ \E places \in CandidateLists :
          asteroids = [k \in 1..Len(places) |->
                          [SeedAsteroid(2 + k, SCALE, 1) EXCEPT !.position = places[k]]]
    /\ NEXT_UID = 3 + MaxCandidates
    /\ asteroid_changes = <<>>
    /\ pc = "missile"
    /\ last = [op |-> "init"]
    /\ uid_threads = UidIdle
    /\ keys = KeysIdle
    /\ uid_issued = {}
    /\ uid_held = {}
    /\ uid_retired = {}
    /\ end_cooldown_age = 0
    /\ frame = FrameIdle

\* missile.rs 106: self.find_nearest(potential_targets)
FindNearest ==
    /\ pc = "missile"
    /\ last.op = "init"
    /\ last' = [op |-> "nearest",
                nearest |-> find_nearest(gamestate.missiles[1], asteroids)]
    /\ UNCHANGED <<gamestate, pc, NEXT_UID, asteroids, asteroid_changes, uidVars, keys,
                   end_cooldown_age, frame>>

SpecNearest == InitNearest /\ [][FindNearest]_vars

DistanceTo(k) == DistanceSquared(asteroids[k].position, gamestate.missiles[1].position)
\* the first candidate in scan order that no candidate is nearer than
FirstNearest ==
    CHOOSE k \in 1..Len(asteroids) :
       /\ \A j \in 1..Len(asteroids) : DistanceTo(k) <= DistanceTo(j)
       /\ \A j \in 1..(k - 1) : DistanceTo(j) > DistanceTo(k)

\* C35: find_nearest returns None for an empty list and otherwise the position
\* of a candidate at minimum distance, the first one in scan order among those
\* at that distance
C35_NearestFirstOfTies ==
    last.op = "nearest" =>
        IF asteroids = <<>> THEN last.nearest = <<>>
        ELSE last.nearest = <<asteroids[FirstNearest].position>>

\* two candidates at the same minimum distance in different places, the one
\* scanned second listed first of the two places: the first one is returned
C35_Witness ==
    /\ last.op = "nearest"
    /\ Len(asteroids) = 3
    /\ DistanceTo(2) = DistanceTo(3)
    /\ DistanceTo(2) < DistanceTo(1)
    /\ asteroids[2].position # asteroids[3].position
    /\ last.nearest = <<asteroids[2].position>>


\* ---------------------------------------------------------------------------
\* The menu stack (general.rs 72, 88, 159-178; key_bindings.rs 382-400;
\* menus.rs 121-123)
MenuShapes == {<<>>, <<"Start">>, <<"Main">>, <<"Main", "Hardware">>}

\* C38: the menu stack is always empty, ['Start'], ['Main'] or
\* ['Main', 'Hardware'] (so 'Start' is never stacked with another menu), and
\* a reset always leaves the stack empty
C38_MenuStackShapes ==
    /\ gamestate.menu \in MenuShapes
    /\ last.op = "input" /\ last.reset => gamestate.menu = <<>>

\* a reset has run from the Start menu, after the hardware page was seen or not
C38_Witness ==
    /\ last.op = "input" /\ last.reset
    /\ gamestate.menu = <<>>
    /\ ~gamestate.over /\ ~gamestate.win


\* ---------------------------------------------------------------------------
\* The wind-down after the ship is destroyed (main.rs 102-263, general.rs
\* 142-178): frames run for ever, the player may pause, open and close the
\* pause menu, or leave the controls alone
WindElapsed == {7 * (TICKS \div 2)}
MaxWindAsteroids == 4

InitWind ==
    /\ gamestate = [MidGame(0, 0) EXCEPT !.spaceship.alive = FALSE,
                                         !.simulation_speed = SimSpeed(1, 10),
                                         !.number_of_asteroids = 1,
                                         !.score = <<3300, 3400>>]
    /\ asteroids = <<[SeedAsteroid(2, 2 * SCALE, 1) EXCEPT
                         !.position = <<(ScreenWidth \div 2) + 200, 100>>]>>
    /\ NEXT_UID = 3
    /\ asteroid_changes = <<>>
    /\ pc = "frame"
    /\ end_cooldown_age \in {0, Seconds(1, 2)}
    /\ frame = FrameIdle
    /\ last = [op |-> "init"]
    /\ uid_threads = UidIdle
    /\ keys = KeysIdle
    /\ uid_issued = {}
    /\ uid_held = {}
    /\ uid_retired = {}

\* main.rs 103-116: the head of a frame; the history of the frame starts anew
WindFrame ==
    /\ pc = "frame"
    /\ \E elapsed \in WindElapsed :
         \E dt \in {TDiv(elapsed * gamestate.simulation_speed, SpeedOne)} :
         /\ gamestate' = [gamestate EXCEPT !.delta_time = dt, !.accumulator = @ + dt]
         /\ end_cooldown_age' = Min(end_cooldown_age + elapsed, Seconds(1, 2))
         /\ frame' = [FrameIdle EXCEPT !.a0 = gamestate.accumulator,
                                       !.elapsed = elapsed]
    /\ pc' = "steps"
    /\ last' = [op |-> "frame"]
    /\ UNCHANGED <<NEXT_UID, asteroids, asteroid_changes, uidVars, keys>>

WindInput == HandleInputWith({NoInput, Held("Pause"), Pressed("Escape")})
WindMenu == MenuDrawWith({""})

\* the asteroid in place k of the collection is split by the attrition of a step
AttritionSplits(k) ==
    /\ DiscreteStep
    /\ k <= Len(asteroids)
    /\ \E n \in 1..Len(last'.events) :
          /\ last'.events[n].kind = "split"
          /\ last'.events[n].by = "attrition"
          /\ last'.events[n].asteroid = asteroids[k].id

NextWind == WindFrame \/ DiscreteStep \/ UpdateAll \/ WindInput \/ WindMenu

\* the loop never stops by itself, and a coin that is tossed again and again
\* comes up heads again and again
SpecWind ==
    /\ InitWind
    /\ [][NextWind]_vars
    /\ WF_vars(NextWind)
    /\ \A k \in 1..MaxWindAsteroids : SF_vars(AttritionSplits(k))

ShipDead == ~gamestate.spaceship.alive /\ ~gamestate.debug
GameOver ==
    /\ Len(asteroids) = 0
    /\ gamestate.number_of_asteroids = 0
    /\ gamestate.over
    /\ gamestate.menu = <<"Start">>
StepRan == last.op = "step"
AttritionFired ==
    /\ last'.op = "step"
    /\ \E n \in 1..Len(last'.events) : last'.events[n].by = "attrition"

\* C31 as stated: once the ship is dead the game-over state is eventually
\* reached whenever frames keep running and the coins are fair
C31_Original == ShipDead ~> GameOver

\* C31: once the ship is dead in non-debug play, the asteroid count reaches 0
\* and the game-over state (over set, 'Start' pushed) is reached, provided
\* discrete steps keep executing (the simulation is not left paused) and the
\* coins are fair; attrition fires only when 0.5 s have passed since it fired
\* last, and restarts that delay
C31_WindsDown ==
    /\ ([]<>StepRan) => (ShipDead ~> GameOver)
    /\ [][AttritionFired => /\ CooldownOver(end_cooldown_age)
                            /\ end_cooldown_age' = 0]_vars

C31_Witness ==
    /\ GameOver
    /\ ~gamestate.spaceship.alive
    /\ NEXT_UID > 3


\* ---------------------------------------------------------------------------
\* Missiles in flight while the loop runs for ever (missile.rs 28-41, 103-133,
\* main.rs 102-131, 260-263): the player fires during the first frames, then
\* watches or pauses
MaxCoastFrames == 2
MaxCoastUid == 12
CoastElapsed == {3 * TICKS}
CoastIds == 1..MaxCoastUid

\* two leaf asteroids that drift clear of the ship
CoastAsteroids ==
    <<[SeedAsteroid(2, SCALE, 1) EXCEPT !.position = <<600, 100>>, !.direction = 0],
      [SeedAsteroid(3, SCALE, 1) EXCEPT !.position = <<2000, 1300>>,
                                        !.direction = 0]>>

\* a homing missile fired 19.95 s of flight ago: 200 + 200 * 19.95 px/s, the
\* turn rate decayed below its floor
AgedMissile(rotation) ==
    [Missile_new(<<400, 720>>, 200, rotation, TRUE, <<600, 100>>, 4) EXCEPT
        !.lifetime = Seconds(1, 20), !.speed = 4190, !.turn_rate = 850]

InitCoast ==
    /\ \E rotation \in {0, 2}, aged \in BOOLEAN :
          /\ gamestate = [MidGame(3 * 100, 0) EXCEPT
                             !.spaceship.rotation = rotation,
                             !.missiles = IF aged THEN <<AgedMissile(rotation)>>
                                          ELSE <<>>]
          /\ NEXT_UID = IF aged THEN 5 ELSE 4
    /\ asteroids = CoastAsteroids
    /\ asteroid_changes = <<>>
    /\ pc = "frame"
    /\ end_cooldown_age = 0
    /\ frame = FrameIdle
    /\ last = [op |-> "init"]
    /\ uid_threads = UidIdle
    /\ keys = KeysIdle
    /\ uid_issued = {}
    /\ uid_held = {}
    /\ uid_retired = {}

\* main.rs 103-116: the head of a frame; frames are counted up to MaxCoastFrames
CoastFrame ==
    /\ pc = "frame"
    /\ \E elapsed \in CoastElapsed :
         \E dt \in {TDiv(elapsed * gamestate.simulation_speed, SpeedOne)} :
         /\ gamestate' = [gamestate EXCEPT !.delta_time = dt, !.accumulator = @ + dt]
         /\ end_cooldown_age' = Min(end_cooldown_age + elapsed, Seconds(1, 2))
         /\ frame' = [FrameIdle EXCEPT
                         !.number = Min(frame.number + 1, MaxCoastFrames + 1),
                         !.a0 = gamestate.accumulator, !.elapsed = elapsed]
    /\ pc' = "steps"
    /\ last' = [op |-> "frame"]
    /\ UNCHANGED <<NEXT_UID, asteroids, asteroid_changes, uidVars, keys>>

CoastFire ==
    /\ frame.number <= MaxCoastFrames
    /\ NEXT_UID + 2 <= MaxCoastUid
    /\ HandleInputWith({Held("Fire"), Held("FireHoming")})
CoastWatch == HandleInputWith({NoInput, Held("Pause")})
CoastMenu == MenuDrawWith({""})

NextCoast ==
    CoastFrame \/ DiscreteStep \/ UpdateAll \/ CoastFire \/ CoastWatch \/ CoastMenu

\* the loop never stops at the head of a frame
SpecCoast == InitCoast /\ [][NextCoast]_vars /\ WF_vars(CoastFrame)

InFlight(id) == \E k \in 1..Len(gamestate.missiles) : gamestate.missiles[k].id = id

\* a frame has begun since the last discrete step
FrameBegun == last.op = "frame"
NoneInFlight == \A id \in CoastIds : ~InFlight(id)

\* C32: provided discrete steps keep being executed (frame after frame has
\* steps), every missile that is fired is eventually removed from the
\* collection: whatever is in flight, a state with none of the missiles in
\* flight follows
C32_MissilesLeave == ([]<>StepRan /\ []<>FrameBegun) => []<>NoneInFlight

\* a step removes a homing missile whose lifetime had run out before it left
\* the screen
C32_Witness ==
    /\ last.op = "step"
    /\ \E m \in {last.missiles_before[k] : k \in 1..Len(last.missiles_before)} :
          /\ m.id \in last.culled
          /\ m.homing
          /\ m.lifetime <= 0
          /\ m.turn_rate = 0
          /\ ~InFlight(m.id)


\* ---------------------------------------------------------------------------
\* The input listener thread and the simulation thread on the mutexes of
\* KeyBindings (key_bindings.rs 114-249, 374-486; main.rs 100, 113, 263)
InputKeys == {"Escape"}
ScrollEntries == {"ScrollUp:1", "ScrollDown:1"}
\* the events rdev hands to the callback; buttons go the way of keys
Events ==
    {<<"KeyPress", k>> : k \in InputKeys} \cup {<<"KeyRelease", k>> : k \in InputKeys}
        \cup {<<"Wheel", 1>>, <<"Wheel", -1>>, <<"Wheel", 0>>}

\* let guard = m.lock().unwrap(), the work done once it is held
Lock(m, do) == [op |-> "lock", m |-> m, do |-> do]
\* the guard goes out of scope
Unlock(m) == [op |-> "unlock", m |-> m, do |-> <<"none">>]
\* m.lock().unwrap() held for one statement or one call that takes no other
\* lock: taken, used and released in one step
Section(m, do) == [op |-> "section", m |-> m, do |-> do]

\* key_bindings.rs 131-193: the callback of listen
ListenerScript(event) ==
    IF event[1] = "KeyPress"
    THEN <<Lock("pressed_keys", <<"none">>), Lock("just_pressed", <<"press", event[2]>>),
           Unlock("just_pressed"), Unlock("pressed_keys")>>
    ELSE IF event[1] = "KeyRelease"
    THEN <<Lock("pressed_keys", <<"none">>),
           Lock("just_released", <<"release", event[2]>>),
           Unlock("just_released"), Unlock("pressed_keys")>>
    ELSE IF event[2] > 0
    THEN <<Lock("scroll_state", <<"none">>), Lock("just_pressed", <<"scroll", "Up">>),
           Lock("scroll_accumulator_up", <<"push", "ScrollUp:1">>),
           Unlock("scroll_accumulator_up"), Unlock("just_pressed"),
           Unlock("scroll_state")>>
    ELSE IF event[2] < 0
    THEN <<Lock("scroll_state", <<"none">>), Lock("just_pressed", <<"scroll", "Down">>),
           Lock("scroll_accumulator_down", <<"push", "ScrollDown:1">>),
           Unlock("scroll_accumulator_down"), Unlock("just_pressed"),
           Unlock("scroll_state")>>
    ELSE <<Lock("scroll_state", <<"none">>), Lock("just_pressed", <<"scroll", "Idle">>),
           Unlock("just_pressed"), Unlock("scroll_state")>>

\* ast-core key_bindings.rs 159-222: the callback locks input_state first
ListenerScriptCore(event) ==
    IF event[1] = "KeyPress" THEN <<Section("input_state", <<"press", event[2]>>)>>
    ELSE IF event[1] = "KeyRelease"
    THEN <<Section("input_state", <<"release", event[2]>>)>>
    ELSE <<Lock("input_state", <<"none">>),
           Lock("scroll_state",
                <<"scroll", IF event[2] > 0 THEN "Up"
                            ELSE IF event[2] < 0 THEN "Down" ELSE "Idle">>),
           Lock("scroll_accumulator",
                IF event[2] > 0 THEN <<"push", "ScrollUp:1">>
                ELSE IF event[2] < 0 THEN <<"push", "ScrollDown:1">>
                ELSE <<"none">>),
           Unlock("scroll_accumulator"), Unlock("scroll_state"),
           Unlock("input_state")>>

\* is_action_held (key_bindings.rs 237-240)
IsActionHeld == Section("pressed_keys", <<"none">>)
\* is_action_pressed (key_bindings.rs 242-245) of the action bound to key
IsActionPressed(key) == Section("just_pressed", <<"check", key>>)

\* a simulation thread that keeps just_pressed locked over the time keys
SimScriptNested ==
    <<Section("pressed_keys", <<"held">>), Section("scroll_state", <<"none">>),
      IsActionPressed("F3"), IsActionPressed("Escape"),
      Lock("just_pressed", <<"scan">>), Lock("pressed_keys", <<"none">>),
      Unlock("pressed_keys"), Unlock("just_pressed"),
      Section("just_pressed", <<"clear">>),
      Section("just_released", <<"clear_released">>),
      Section("scroll_state", <<"scroll", "Idle">>)>>

\* one frame of the simulation thread: get_held_keys (main.rs 113,
\* key_bindings.rs 224-235), then handle_input during play (key_bindings.rs
\* 374-486) with clear_events (115-119) at its end
SimScript ==
    <<Section("pressed_keys", <<"held">>), Section("scroll_state", <<"none">>),
      IsActionPressed("F3"), IsActionPressed("Escape"),
      IsActionHeld, IsActionHeld, IsActionHeld, IsActionHeld,
      IsActionPressed("Middle"),
      IsActionHeld, IsActionHeld,
      IsActionPressed("ScrollUp"), IsActionPressed("ScrollDown"),
      Section("just_pressed", <<"scan">>),
      IsActionHeld, IsActionHeld, IsActionHeld,
      Section("just_pressed", <<"clear">>),
      Section("just_released", <<"clear_released">>),
      Section("scroll_state", <<"scroll", "Idle">>)>>

\* ast-core key_bindings.rs 249-275, 401-516, 144-149: get_held_keys holds
\* input_state over scroll_state, handle_input clones input_state for the
\* scroll entries and asks the live state for the actions, clear_events holds
\* input_state over scroll_state
SimScriptCore ==
    <<Lock("input_state", <<"held">>), Section("scroll_state", <<"none">>),
      Unlock("input_state"),
      Section("input_state", <<"scan">>),
      Section("input_state", <<"check", "F3">>),
      Section("input_state", <<"check", "Escape">>),
      Section("input_state", <<"none">>), Section("input_state", <<"none">>),
      Section("input_state", <<"none">>), Section("input_state", <<"none">>),
      Section("input_state", <<"check", "Middle">>),
      Section("input_state", <<"none">>), Section("input_state", <<"none">>),
      Section("input_state", <<"check", "ScrollUp">>),
      Section("input_state", <<"check", "ScrollDown">>),
      Section("input_state", <<"none">>), Section("input_state", <<"none">>),
      Section("input_state", <<"none">>),
      Lock("input_state", <<"clear">>),
      Section("scroll_state", <<"scroll", "Idle">>),
      Unlock("input_state")>>

\* the work done under the locks; seen: the entries of just_pressed a check
\* of this frame has found, lost: the entries the last clear_events erased
\* without one (until the next frame begins)
ApplyKeys(k, do) ==
    IF do[1] = "press"
    THEN IF do[2] \in k.pressed_keys THEN k
         ELSE [k EXCEPT !.pressed_keys = @ \cup {do[2]},
                        !.just_pressed = @ \cup {do[2]}]
    ELSE IF do[1] = "release"
    THEN [k EXCEPT !.pressed_keys = @ \ {do[2]}, !.just_released = @ \cup {do[2]}]
    ELSE IF do[1] = "scroll" THEN [k EXCEPT !.scroll_state = do[2]]
    ELSE IF do[1] = "push" THEN [k EXCEPT !.just_pressed = @ \cup {do[2]}]
    ELSE IF do[1] = "check"
    THEN [k EXCEPT !.seen = @ \cup (k.just_pressed \cap {do[2]})]
    ELSE IF do[1] = "scan"
    THEN [k EXCEPT !.seen = @ \cup (k.just_pressed \cap ScrollEntries)]
    ELSE IF do[1] = "clear"
    THEN [k EXCEPT !.lost = @ \cup (k.just_pressed \ k.seen),
                   !.just_pressed = {}, !.seen = {},
                   !.just_released = IF k.crate = "ast-core" THEN {} ELSE @]
    ELSE IF do[1] = "clear_released" THEN [k EXCEPT !.just_released = {}]
    ELSE IF do[1] = "held" THEN [k EXCEPT !.lost = {}]
    ELSE k

\* std::sync::Mutex: lock() returns once no thread holds the mutex
CanRun(k, i) == i.op = "unlock" \/ k.owner[i.m] = "free"
RunKeys(k, thread, i) ==
    IF i.op = "lock" THEN [ApplyKeys(k, i.do) EXCEPT !.owner[i.m] = thread]
    ELSE IF i.op = "unlock" THEN [k EXCEPT !.owner[i.m] = "free"]
    ELSE ApplyKeys(k, i.do)

otherVars == <<NEXT_UID, asteroids, asteroid_changes, last, uidVars, gameVars>>

\* the script of each thread in the crate that runs
ListenerCalls(k) ==
    IF k.crate = "ast-core" THEN ListenerScriptCore(k.event) ELSE ListenerScript(k.event)
SimCalls(k) == IF k.crate = "ast-core" THEN SimScriptCore ELSE SimScript

InitInput ==
    /\ gamestate = MidGame(3 * 100, 0)
    /\ pc = "input"
    /\ last = [op |-> "init"]
    /\ NEXT_UID = generate_uid(1).new
    /\ asteroids = <<>>
    /\ asteroid_changes = <<>>
    /\ uid_threads = UidIdle
    /\ keys \in {[KeysIdle EXCEPT !.crate = c] : c \in {"asteroids", "ast-core"}}
    /\ uid_issued = {}
    /\ uid_held = {}
    /\ uid_retired = {}
    /\ end_cooldown_age = 0
    /\ frame = FrameIdle

\* rdev calls the callback with the next event
ListenerEvent ==
    /\ keys.listener = 0
    /\ \E event \in Events : keys' = [keys EXCEPT !.event = event, !.listener = 1]
    /\ UNCHANGED otherVars

\* the callback takes its next lock, or lets one go
ListenerStep ==
    /\ keys.listener > 0
    /\ CanRun(keys, ListenerCalls(keys)[keys.listener])
    /\ keys' = [RunKeys(keys, "listener", ListenerCalls(keys)[keys.listener])
                   EXCEPT !.listener = IF @ = Len(ListenerCalls(keys))
                                       THEN 0 ELSE @ + 1,
                          !.event = IF keys.listener = Len(ListenerCalls(keys))
                                    THEN <<>> ELSE @]
    /\ UNCHANGED otherVars

\* the simulation thread makes its next call on the key bindings
SimStep ==
    /\ CanRun(keys, SimCalls(keys)[keys.sim])
    /\ keys' = [RunKeys(keys, "sim", SimCalls(keys)[keys.sim])
                   EXCEPT !.sim = IF @ = Len(SimCalls(keys)) THEN 1 ELSE @ + 1]
    /\ UNCHANGED otherVars

NextInput == ListenerEvent \/ ListenerStep \/ SimStep

\* a thread that finds its mutex free again and again takes it in the end
SpecInput ==
    /\ InitInput
    /\ [][NextInput]_vars
    /\ SF_vars(ListenerStep)
    /\ SF_vars(SimStep)

ListenerWaits ==
    /\ keys.listener > 0
    /\ ~CanRun(keys, ListenerCalls(keys)[keys.listener])
SimWaits == ~CanRun(keys, SimCalls(keys)[keys.sim])

\* C36: no just-pressed event is erased by clear_events without a check of
\* the same handle_input call having found it
C36_NoEventLost == keys.lost = {}

MaxCombos == 2
MaxStarts == 2
\* the actions of the model, in the order of the enum (Ord is derived)
BoundActions == <<"Fire", "Escape">>
KeyCombo(kind, name) == [input |-> <<kind, name>>, modifiers |-> <<>>]
KeyCombos == {KeyCombo("Key", "Escape"), KeyCombo("Mouse", "Left"), KeyCombo("Key", "KeyQ")}
ComboLists == UNION {[1..n -> KeyCombos] : n \in 1..MaxCombos}
\* HashMap<Action, Vec<KeyCombo>>
BindingChoices ==
    UNION {[dom -> ComboLists] : dom \in SUBSET {BoundActions[n] : n \in 1..Len(BoundActions)}}

\* default_keybindings, the actions of the model
default_keybindings ==
    [a \in {"Fire", "Escape"} |->
        IF a = "Fire" THEN <<KeyCombo("Mouse", "Left"), KeyCombo("Key", "KeyQ")>>
        ELSE <<KeyCombo("Key", "Escape")>>]

\* a JSON object: its members in the order they are written
JsonObject(members) == [kind |-> "object", members |-> members]
HasMember(doc, key) == \E n \in 1..Len(doc.members) : doc.members[n][1] = key
MemberOf(doc, key) ==
    doc.members[CHOOSE n \in 1..Len(doc.members) : doc.members[n][1] = key][2]

\* derive(Serialize) of KeyCombo and KeyInput: {"input": {"Key": ".."}, "modifiers": []}
ComboToJson(combo) ==
    JsonObject(<<<<"input", JsonObject(<<<<combo.input[1], combo.input[2]>>>>)>>,
                 <<"modifiers", combo.modifiers>>>>)
\* derive(Deserialize) of KeyCombo: both fields are required
ComboFromJson(doc) ==
    IF doc.kind = "object" /\ HasMember(doc, "input") /\ HasMember(doc, "modifiers")
       /\ Len(MemberOf(doc, "input").members) = 1
    THEN [ok |-> TRUE,
          value |-> [input |-> MemberOf(doc, "input").members[1],
                     modifiers |-> MemberOf(doc, "modifiers")]]
    ELSE [ok |-> FALSE]

\* the map of the bindings as a JSON object, the actions in enum order
MapToJson(bindings) ==
    JsonObject(MapSeq(SelectSeq(BoundActions, LAMBDA a : a \in DOMAIN bindings),
                      LAMBDA a : <<a, MapSeq(bindings[a], ComboToJson)>>))
MapFromJson(doc) ==
    IF /\ doc.kind = "object"
       /\ \A n \in 1..Len(doc.members) :
             /\ \E k \in 1..Len(BoundActions) : BoundActions[k] = doc.members[n][1]
             /\ \A k \in 1..Len(doc.members[n][2]) :
                   ComboFromJson(doc.members[n][2][k]).ok
    THEN [ok |-> TRUE,
          value |-> [a \in {doc.members[n][1] : n \in 1..Len(doc.members)} |->
                        MapSeq(MemberOf(doc, a), LAMBDA c : ComboFromJson(c).value)]]
    ELSE [ok |-> FALSE]

\* a save that writes the struct, its bindings field by name
SaveStruct(bindings) == JsonObject(<<<<"bindings", MapToJson(bindings)>>>>)

\* KeyBindings::save (key_bindings.rs 201-208): the BTreeMap collected from
\* self.bindings is what is serialised, not the struct
save(bindings) == MapToJson(bindings)

\* KeyBindings::load (key_bindings.rs 210-216): serde_json::from_str of the
\* struct KeyBindings, whose one field that is not skipped is bindings; other
\* members are ignored, a missing field is an error
load(file) ==
    IF file.kind # "object" THEN [ok |-> FALSE]
    ELSE IF ~HasMember(file, "bindings") THEN [ok |-> FALSE]
    ELSE MapFromJson(MemberOf(file, "bindings"))

\* main.rs 91-98
StartupBindings(file) == IF load(file).ok THEN load(file).value ELSE default_keybindings

\* the file at the first start: none, not JSON, written by hand as the struct,
\* or left by an earlier run
FileChoices ==
    {[kind |-> "absent"], [kind |-> "garbage"]}
        \cup {SaveStruct(b) : b \in BindingChoices}
        \cup {save(b) : b \in BindingChoices}

InitBindings ==
    /\ \E file \in FileChoices :
          last = [op |-> "init", file |-> file, bindings |-> default_keybindings,
                  starts |-> 0]
    /\ gamestate = Gamestate_new(1)
    /\ pc = "keys"
    /\ RestIdle

\* main.rs 91-98: the bindings of the run
Startup ==
    /\ pc = "keys"
    /\ last.op \in {"init", "exit"}
    /\ last.starts < MaxStarts
    /\ last' = [op |-> "start", file |-> last.file,
                bindings |-> StartupBindings(last.file), starts |-> last.starts + 1,
                before |-> last.bindings]
    /\ UNCHANGED <<gamestate, pc, restVars>>

\* main.rs 290-293: the bindings are saved when the loop is left
Exit ==
    /\ pc = "keys"
    /\ last.op = "start"
    /\ last' = [op |-> "exit", file |-> save(last.bindings),
                bindings |-> last.bindings, starts |-> last.starts]
    /\ UNCHANGED <<gamestate, pc, restVars>>

NextBindings == Startup \/ Exit
SpecBindings == InitBindings /\ [][NextBindings]_vars

\* C39: the file save has written is accepted by load and yields the bindings
\* that were saved, so the next start runs with the bindings of the exit
C39_SaveLoadIdentity ==
    /\ last.op = "exit" =>
          load(last.file) = [ok |-> TRUE, value |-> last.bindings]
    /\ last.op = "start" /\ last.starts > 1 => last.bindings = last.before

====
